---------------------------- MODULE Spec2Model ----------------------------
(***************************************************************************)
(* State-machine model of the session, procedure cache and view registry   *)
(* of go-mysql-server (sql/session.go, the analyzer's ProcedureCache and   *)
(* the sql.ViewRegistry).                                                  *)
(*                                                                         *)
(* Each component has its own specification (SpecSession, SpecProc,        *)
(* SpecView): the components share no state, so TLC explores them one at   *)
(* a time.  Spec is their composition.                                     *)
(***************************************************************************)
EXTENDS Integers, Sequences, FiniteSets, TLC

VARIABLES
    warnings,          \* BaseSession.warnings ([]*Warning; nil is modelled as <<>>)
    warncnt,           \* BaseSession.warncnt (uint16), the acknowledgment marker
    warnLog,           \* history: the arguments of every Warn call so far, in call order
    cleared,           \* history: TRUE once ClearWarnings has been called
    ackDepth,          \* history: how many stored warnings the latest ClearWarnings call
                       \* saw, 0 again as soon as a Warn has run after that call
    nWarn,             \* number of Warn calls made in this run (bounds the run)
    sret,              \* the last session call and what it returned
    dbToProcedureMap,  \* ProcedureCache.dbToProcedureMap: db -> name -> arity -> *Procedure
    regLog,            \* history: the <<dbName, procedure>> of every Register call so far
    pret,              \* the last ProcedureCache call, its arguments and what it returned
    views,             \* ViewRegistry.views: the entries [db, name, view] it holds
    viewLog,           \* history: the successful Register and Delete calls so far
    vret,              \* the last ViewRegistry call, its arguments and what it returned
    updIter,           \* whether Update.RowIter has built an updateIter: "none" or "open"
    updClosed,         \* updateIter.closed
    updaterMade,       \* history: updatable.Updater(ctx) has been called
    childOpened,       \* history: u.Child.RowIter(ctx, row) has been called
    nNext,             \* number of updateIter.Next calls made in this run (bounds the run)
    nUpdate,           \* history: number of updater.Update calls so far
    nDiffer,           \* history: number of rows the child yielded whose halves differ
    closeLog,          \* history: the Close calls made on the updater and the child
    uret,              \* the last Update / updateIter call and what it returned
    ctxs,              \* the sql.Context values made so far, in order of creation
    goctx,             \* the context.Context values below them: parent, kind, done
    cancelLog,         \* history: the scopes whose cancel function has been invoked
    sessData,          \* what each Session made by NewContext holds
    cret,              \* the last Context call and what it did
    ctxNowFunc,        \* the process-wide now function: 0 is time.Now, f > 0 a supplied one
    ctxNowFuncMutex,   \* the thread holding ctxNowFuncMutex, 0 if it is free
    rpc,               \* where each thread is inside RunWithNowFunc
    nowArg,            \* the nowFunc each thread passed
    initialNow,        \* the local initialNow of each thread's call
    fnErr,             \* what each thread's callback returned
    nowBefore,         \* history: the now function each thread's call replaced
    nCalls,            \* number of RunWithNowFunc calls each thread has made
    nret,              \* the last RunWithNowFunc call that returned, and its result
    muWriter,          \* the thread holding BaseSession.mu exclusively, 0 if none
    muReaders,         \* the threads holding BaseSession.mu shared
    spc,               \* the Session method each thread is in, and where in it
    locks,             \* BaseSession.locks: the names it maps to true
    lockLog,           \* history: the AddLock and DelLock calls so far
    lret,              \* the last AddLock / DelLock / IterLocks call and what it returned
    spDone,            \* spanIter.done
    spCount,           \* spanIter.count
    spMax,             \* spanIter.max
    spMin,             \* spanIter.min
    spTotal,           \* spanIter.total
    spLog,             \* history: the calls made on the span and on the inner iterator's Close
    nSpanNext,         \* number of spanIter.Next calls made in this run (bounds the run)
    nSpanClose,        \* number of spanIter.Close calls made in this run (bounds the run)
    spret,             \* the last spanIter call and what it returned
    spSamples,         \* history: the elapsed times of the Next calls that returned a row
    aret,              \* the last applyUpdateExpressions call: its arguments, its Eval calls, its result
    remu,              \* s.mu of the session a goroutine re-enters: [writer, readers]
    relocks,           \* s.locks of that session
    reiter,            \* where the goroutine's IterLocks call is: "idle", "range" or "cb"
    retodo,            \* the names the range of IterLocks has still to visit, in its order
    recb,              \* what the callback handed to IterLocks calls on the session
    recur,             \* the name the callback was called with
    reop,              \* the session method the goroutine is in: [op, name, at]
    nestNow,           \* ctxNowFunc, where callbacks may call RunWithNowFunc themselves
    nestMutex,         \* ctxNowFuncMutex there: whether it is locked
    nestStack,         \* each thread's RunWithNowFunc calls in progress, the innermost last
    nestCalls          \* number of RunWithNowFunc calls each thread has made (bounds the run)

sessionVars == <<warnings, warncnt, warnLog, cleared, ackDepth, nWarn, sret>>

procVars == <<dbToProcedureMap, regLog, pret>>

viewVars == <<views, viewLog, vret>>

updVars == <<updIter, updClosed, updaterMade, childOpened, nNext, nUpdate, nDiffer,
             closeLog, uret>>

ctxVars == <<ctxs, goctx, cancelLog, sessData, cret>>

nowVars == <<ctxNowFunc, ctxNowFuncMutex, rpc, nowArg, initialNow, fnErr, nowBefore, nCalls,
             nret>>

muVars == <<muWriter, muReaders, spc>>

lockVars == <<locks, lockLog, lret>>

spanVars == <<spDone, spCount, spMax, spMin, spTotal, spLog, nSpanNext, nSpanClose, spret,
              spSamples>>

applyVars == <<aret>>

reVars == <<remu, relocks, reiter, retodo, recb, recur, reop>>

nestVars == <<nestNow, nestMutex, nestStack, nestCalls>>

\* What a call on one component leaves alone: the state of the others.
notSessionVars == <<procVars, viewVars, updVars, ctxVars, nowVars, muVars, lockVars, spanVars, applyVars, reVars, nestVars>>

notProcVars == <<sessionVars, viewVars, updVars, ctxVars, nowVars, muVars, lockVars, spanVars, applyVars, reVars, nestVars>>

notViewVars == <<sessionVars, procVars, updVars, ctxVars, nowVars, muVars, lockVars, spanVars, applyVars, reVars, nestVars>>

notUpdVars == <<sessionVars, procVars, viewVars, ctxVars, nowVars, muVars, lockVars, spanVars, applyVars, reVars, nestVars>>

notCtxVars == <<sessionVars, procVars, viewVars, updVars, nowVars, muVars, lockVars, spanVars, applyVars, reVars, nestVars>>

notNowVars == <<sessionVars, procVars, viewVars, updVars, ctxVars, muVars, lockVars, spanVars, applyVars, reVars, nestVars>>

notMuVars == <<sessionVars, procVars, viewVars, updVars, ctxVars, nowVars, lockVars, spanVars, applyVars, reVars, nestVars>>

notLockVars == <<sessionVars, procVars, viewVars, updVars, ctxVars, nowVars, muVars, spanVars, applyVars, reVars, nestVars>>

notSpanVars == <<sessionVars, procVars, viewVars, updVars, ctxVars, nowVars, muVars, lockVars, applyVars, reVars, nestVars>>

notApplyVars == <<sessionVars, procVars, viewVars, updVars, ctxVars, nowVars, muVars, lockVars, spanVars, reVars, nestVars>>

notReVars == <<sessionVars, procVars, viewVars, updVars, ctxVars, nowVars, muVars, lockVars, spanVars, applyVars, nestVars>>

notNestVars == <<sessionVars, procVars, viewVars, updVars, ctxVars, nowVars, muVars, lockVars, spanVars, applyVars, reVars>>

-----------------------------------------------------------------------------
(* Bounds of the model.                                                    *)

\* Warn calls explored in one run.
MaxWarns == 3

\* Warn calls a loaded session has already served when the run starts.
Preloaded == 65534

\* Distinct *Warning values handed to Warn.
NumWarnings == 2

\* Register calls explored in one run.
MaxRegs == 2

\* Successful ViewRegistry Register and Delete calls explored in one run.
MaxViewOps == 4

\* Nodes of the plan below an Update node.
MaxNodes == 4

\* updateIter.Next calls explored in one run.
MaxNext == 3

\* sql.Context values made in one run.
MaxCtx == 4

\* NewContext calls made in one run.
MaxRoots == 2

\* Threads calling RunWithNowFunc.
NowThreads == 2

\* RunWithNowFunc calls each thread makes in one run.
MaxNowCalls == 2

\* Distinct now functions handed to RunWithNowFunc.
NumNowFuncs == 2

\* Threads using one session.
SessThreads == 2

\* AddLock and DelLock calls explored in one run.
MaxLockOps == 4

\* spanIter.Next calls explored in one run.
MaxSpanNext == 3

\* spanIter.Close calls explored in one run.
MaxSpanClose == 2

\* The longest time one call of the inner iterator's Next takes.
MaxElapsed == 2

\* The longest list of update expressions handed to applyUpdateExpressions.
MaxExprs == 3

\* Columns of the rows handed to applyUpdateExpressions.
ApplyCols == 2

\* RunWithNowFunc calls, nested ones included, each thread makes in one run.
MaxNestCalls == 2

-----------------------------------------------------------------------------
(* Program constants.                                                      *)

\* uint16(x) keeps x modulo 2^16.
Uint16Mod == 65536

Uint16(x) == x % Uint16Mod

Warning == 1..NumWarnings

-----------------------------------------------------------------------------
(* BaseSession: warnings.  Every method below holds s.mu for its whole     *)
(* body (Lock/RLock, defer Unlock), so each is one atomic step and the     *)
(* interleavings of concurrent callers are the interleavings of steps.     *)
(*                                                                         *)
(* A list of warnings is written [old |-> k, new |-> s]: the warnings of   *)
(* the first k Warn calls the session served before the run (the i-th of   *)
(* them is PreWarning(i)), followed by the sequence s.  A fresh session    *)
(* has k = 0.  The list Warnings() returns is written                      *)
(* [first |-> s, old |-> k]: s followed by PreWarning(k), ..., PreWarning(1). *)

\* The *Warning the i-th Warn call before the run passed.
PreWarning(i) == 1 + (i % NumWarnings)

\* len(ws)
SliceLen(ws) == ws.old + Len(ws.new)

\* ws[i-1]: the i-th element, counted from 1
SliceAt(ws, i) == IF i <= ws.old THEN PreWarning(i) ELSE ws.new[i - ws.old]

\* The nil slice.
NilSlice == [old |-> 0, new |-> <<>>]

\* NewBaseSession: no warnings.
InitFresh ==
    /\ warnings = NilSlice
    /\ warnLog = NilSlice

\* The same session after Preloaded calls of Warn and no other call.
InitLoaded ==
    /\ warnings = [old |-> Preloaded, new |-> <<>>]
    /\ warnLog = [old |-> Preloaded, new |-> <<>>]

\* What a session that has served only Warn calls holds besides its warnings.
InitMarkers ==
    /\ warncnt = 0
    /\ cleared = FALSE
    /\ ackDepth = 0
    /\ nWarn = 0
    /\ sret = [op |-> "new"]

InitSession == InitFresh /\ InitMarkers

InitSessionLoaded == InitLoaded /\ InitMarkers

\* s.warnings = append(s.warnings, warn)
WarnAppend(ws, w) == [ws EXCEPT !.new = Append(@, w)]

Warn(w) ==
    /\ nWarn < MaxWarns
    /\ warnings' = WarnAppend(warnings, w)
    /\ warnLog' = [warnLog EXCEPT !.new = Append(@, w)]
    /\ ackDepth' = 0
    /\ nWarn' = nWarn + 1
    /\ sret' = [op |-> "Warn"]
    /\ UNCHANGED <<warncnt, cleared>>
    /\ UNCHANGED notSessionVars

\* warns[i] = s.warnings[n-i-1] for i in 0..n-1, in a slice of its own
Reversed(ws) ==
    LET n == Len(ws.new)
    IN  [first |-> [i \in 1..n |-> ws.new[n - i + 1]], old |-> ws.old]

Warnings ==
    /\ sret' = [op |-> "Warnings", val |-> Reversed(warnings)]
    /\ UNCHANGED <<warnings, warncnt, warnLog, cleared, ackDepth, nWarn>>
    /\ UNCHANGED notSessionVars

\* uint16(len(s.warnings))
WarningCountOf(ws) == Uint16(SliceLen(ws))

WarningCount ==
    /\ sret' = [op |-> "WarningCount", val |-> WarningCountOf(warnings)]
    /\ UNCHANGED <<warnings, warncnt, warnLog, cleared, ackDepth, nWarn>>
    /\ UNCHANGED notSessionVars

\* s.warnings[:0]
Emptied(ws) == [old |-> 0, new |-> <<>>]

\* cnt := uint16(len(s.warnings)); if s.warncnt == cnt { empty; warncnt = 0 }
\* else { warncnt = cnt }
ClearWarnings ==
    LET cnt == Uint16(SliceLen(warnings))
    IN  /\ IF warncnt = cnt
           THEN /\ warnings' = Emptied(warnings)
                /\ warncnt' = 0
           ELSE /\ warnings' = warnings
                /\ warncnt' = cnt
        /\ cleared' = TRUE
        /\ ackDepth' = SliceLen(warnings')
        /\ sret' = [op |-> "ClearWarnings"]
        /\ UNCHANGED <<warnLog, nWarn>>
        /\ UNCHANGED notSessionVars

NextSession ==
    \/ \E w \in Warning : Warn(w)
    \/ Warnings
    \/ WarningCount
    \/ ClearWarnings

-----------------------------------------------------------------------------
(* Strings are sequences of ASCII codes, so that strings.ToLower and the   *)
(* byte-wise order of Go's < on strings are computed, not assumed.         *)

\* strings.ToLower on ASCII text: 'A'..'Z' (65..90) become 'a'..'z'.
ToLower(s) == [i \in DOMAIN s |-> IF s[i] \in 65..90 THEN s[i] + 32 ELSE s[i]]

\* Go's a < b on strings: lexicographic on bytes, a proper prefix is smaller.
RECURSIVE StrLess(_, _)
StrLess(a, b) ==
    IF b = <<>> THEN FALSE
    ELSE IF a = <<>> THEN TRUE
    ELSE IF Head(a) # Head(b) THEN Head(a) < Head(b)
    ELSE StrLess(Tail(a), Tail(b))

\* "d", "D"
DbNames == {<<100>>, <<68>>}

\* "foo", "FOO", "bar"
ProcNames == {<<102, 111, 111>>, <<70, 79, 79>>, <<98, 97, 114>>}

\* len(procedure.Params) of the procedures handed to Register.
ParamCounts == {0, 1, 2}

\* Distinct procedure objects with one signature (pointer identity).
Bodies == {1, 2}

\* The numOfParams a caller passes to Get.
Counts == {0, 1, 2, 3}

-----------------------------------------------------------------------------
(* ProcedureCache.  Every method holds pc.mu for its whole body.           *)

\* math.MaxInt on a 32-bit platform (2^63 - 1 on a 64-bit one): the model
\* uses it only as a key and in comparisons, where either value behaves alike.
MaxInt == 2147483647

\* *plan.Procedure: its Name, len(Params), whether the last parameter is
\* variadic, and the identity of the object.
Procedures ==
    {p \in [Name : ProcNames, NParams : ParamCounts, Variadic : BOOLEAN, id : Bodies] :
        p.Variadic => p.NParams >= 1}

\* The nil *plan.Procedure.
NilProc == [Name |-> <<>>, NParams |-> 0, Variadic |-> FALSE, id |-> 0]

\* procedure.HasVariadicParameter()
HasVariadicParameter(p) == p.Variadic

\* Register: paramLen := len(procedure.Params), math.MaxInt if variadic.
RegisterParamLen(p) == IF HasVariadicParameter(p) THEN MaxInt ELSE p.NParams

\* Register: name := strings.ToLower(procedure.Name)
RegisterName(p) == ToLower(p.Name)

\* Register: the database key is dbName as given.
RegisterDb(dbName) == dbName

\* m[k] = v on a Go map that may or may not hold k.
MapPut(m, k, v) == [x \in DOMAIN m \cup {k} |-> IF x = k THEN v ELSE m[x]]

\* The empty Go map.
EmptyMap == <<>>

\* m[k], or the empty map when k is absent (the map Register then makes).
MapGetOrEmpty(m, k) == IF k \in DOMAIN m THEN m[k] ELSE EmptyMap

\* pc.dbToProcedureMap[dbName][name][paramLen] = procedure, making the inner
\* maps that are missing.
Registered(m, dbName, p) ==
    LET db == RegisterDb(dbName)
        name == RegisterName(p)
        procMap == MapGetOrEmpty(m, db)
        procedures == MapGetOrEmpty(procMap, name)
    IN  MapPut(m, db, MapPut(procMap, name, MapPut(procedures, RegisterParamLen(p), p)))

Register(dbName, p) ==
    /\ Len(regLog) < MaxRegs
    /\ dbToProcedureMap' = Registered(dbToProcedureMap, dbName, p)
    /\ regLog' = Append(regLog, <<dbName, p>>)
    /\ pret' = [op |-> "Register", db |-> dbName, proc |-> p, err |-> "nil"]
    /\ UNCHANGED notProcVars

\* The orders in which a range over a Go map with key set S may visit it.
Orders(S) ==
    {o \in [1..Cardinality(S) -> S] : \A i, j \in DOMAIN o : i # j => o[i] # o[j]}

\* Get: dbName = strings.ToLower(dbName)
GetDbAsGiven(dbName) == dbName

GetDb(dbName) == ToLower(dbName)

\* Get: procedureName = strings.ToLower(procedureName)
GetName(procedureName) == ToLower(procedureName)

\* Get, fallback: paramLen := len(procedure.Params), math.MaxInt if variadic.
EffectiveLenDeclared(p) == p.NParams

EffectiveLen(p) == IF HasVariadicParameter(p) THEN MaxInt ELSE p.NParams

\* Get, fallback: largestParamProc == nil || largestParamLen < paramLen
LargerNoNilCheck(largestProc, largestLen, paramLen) == largestLen < paramLen

Larger(largestProc, largestLen, paramLen) ==
    largestProc = NilProc \/ largestLen < paramLen

\* Get, fallback: the loop over procedures, visiting the arities in `order`;
\* acc is <<largestParamProc, largestParamLen>>.
RECURSIVE LargestFrom(_, _, _)
LargestFrom(procedures, order, acc) ==
    IF order = <<>> THEN acc[1]
    ELSE LET procedure == procedures[Head(order)]
             paramLen == EffectiveLen(procedure)
         IN  LargestFrom(procedures, Tail(order),
                         IF Larger(acc[1], acc[2], paramLen)
                         THEN <<procedure, paramLen>>
                         ELSE acc)

\* Get(dbName, procedureName, numOfParams) when the fallback loop visits the
\* arities of the name in `order`.
GetIn(m, dbName, procedureName, numOfParams, order) ==
    LET db == GetDb(dbName)
        name == GetName(procedureName)
    IN  IF db \in DOMAIN m /\ name \in DOMAIN m[db]
        THEN IF numOfParams \in DOMAIN m[db][name]
             THEN m[db][name][numOfParams]
             ELSE LargestFrom(m[db][name], order, <<NilProc, 0>>)
        ELSE NilProc

\* The arities Get's fallback loop ranges over.
GetArities(m, dbName, procedureName) ==
    LET db == GetDb(dbName)
        name == GetName(procedureName)
    IN  IF db \in DOMAIN m /\ name \in DOMAIN m[db] THEN DOMAIN m[db][name] ELSE {}

Get(dbName, procedureName, numOfParams) ==
    \E order \in Orders(GetArities(dbToProcedureMap, dbName, procedureName)) :
        /\ pret' = [op |-> "Get", db |-> dbName, name |-> procedureName,
                    count |-> numOfParams,
                    val |-> GetIn(dbToProcedureMap, dbName, procedureName,
                                  numOfParams, order)]
        /\ UNCHANGED <<dbToProcedureMap, regLog>>
        /\ UNCHANGED notProcVars

\* AllForDatabase: the comparison handed to sort.Slice.
ProcLess(a, b) ==
    IF a.Name # b.Name THEN StrLess(a.Name, b.Name) ELSE a.NParams < b.NParams

\* x put into the sorted sequence s, after the elements it is not less than.
RECURSIVE Insert(_, _)
Insert(s, x) ==
    IF s = <<>> THEN <<x>>
    ELSE IF ProcLess(x, Head(s)) THEN <<x>> \o s
    ELSE <<Head(s)>> \o Insert(Tail(s), x)

\* sort.Slice(s, ProcLess).  Go leaves the order of elements that compare
\* equal open; with the input in any order, this sort yields each of them.
RECURSIVE SortProcs(_)
SortProcs(s) == IF s = <<>> THEN <<>> ELSE Insert(SortProcs(Tail(s)), Head(s))

\* AllForDatabase: dbName = strings.ToLower(dbName)
AllDb(dbName) == ToLower(dbName)

\* The (name, arity) entries AllForDatabase's two nested ranges visit.
DbEntries(m, dbName) ==
    LET db == AllDb(dbName)
    IN  IF db \in DOMAIN m
        THEN UNION {{<<name, k>> : k \in DOMAIN m[db][name]} : name \in DOMAIN m[db]}
        ELSE {}

\* AllForDatabase(dbName) when the ranges visit the entries in `order`.
AllForDatabaseIn(m, dbName, order) ==
    LET db == AllDb(dbName)
    IN  IF db \in DOMAIN m
        THEN SortProcs([i \in DOMAIN order |-> m[db][order[i][1]][order[i][2]]])
        ELSE <<>>

AllForDatabase(dbName) ==
    \E order \in Orders(DbEntries(dbToProcedureMap, dbName)) :
        /\ pret' = [op |-> "AllForDatabase", db |-> dbName,
                    val |-> AllForDatabaseIn(dbToProcedureMap, dbName, order)]
        /\ UNCHANGED <<dbToProcedureMap, regLog>>
        /\ UNCHANGED notProcVars

\* NewProcedureCache
InitProc ==
    /\ dbToProcedureMap = EmptyMap
    /\ regLog = <<>>
    /\ pret = [op |-> "new"]

NextProc ==
    \/ \E dbName \in DbNames, p \in Procedures : Register(dbName, p)
    \/ \E dbName \in DbNames, name \in ProcNames, n \in Counts : Get(dbName, name, n)
    \/ \E dbName \in DbNames : AllForDatabase(dbName)

-----------------------------------------------------------------------------
(* ViewRegistry.  Its code is not among the source files (only its tests   *)
(* are); the operations below follow the specification, sections 3 and 4.5 *)
(* (keys are (database, lowercase view name); Register fails if present,   *)
(* Delete and View fail if absent).                                        *)

\* "v", "V", "w"
ViewNames == {<<118>>, <<86>>, <<119>>}

\* The definitions a view may carry.
ViewDefs == {1, 2}

\* NewView(name, definition)
Views == [Name : ViewNames, Def : ViewDefs]

\* The key of a view: the database as given and the lowercase view name.
ViewKey(dbName, viewName) == <<dbName, ToLower(viewName)>>

\* The entries stored under a key.
ViewsAt(vs, key) == {e \in vs : <<e.db, e.name>> = key}

\* Whether the registry holds the key.
HasView(vs, key) == ViewsAt(vs, key) # {}

\* The history entry of a successful call.
Logged(op, dbName, viewName, v) == [op |-> op, db |-> dbName, name |-> viewName, view |-> v]

\* Register(db, view): already-exists if the key is present, else store.
RegisterViewUnchecked(dbName, v) ==
    LET key == ViewKey(dbName, v.Name)
    IN  /\ Len(viewLog) < MaxViewOps
        /\ views' = views \cup {[db |-> key[1], name |-> key[2], view |-> v]}
        /\ viewLog' = Append(viewLog, Logged("Register", dbName, v.Name, v))
        /\ vret' = [op |-> "Register", db |-> dbName, name |-> v.Name,
                    view |-> v, err |-> "nil"]
        /\ UNCHANGED notViewVars

RegisterView(dbName, v) ==
    LET key == ViewKey(dbName, v.Name)
    IN  /\ Len(viewLog) < MaxViewOps
        /\ IF HasView(views, key)
           THEN /\ views' = views
                /\ viewLog' = viewLog
                /\ vret' = [op |-> "Register", db |-> dbName, name |-> v.Name,
                            view |-> v, err |-> "ErrExistingView"]
           ELSE /\ views' = views \cup {[db |-> key[1], name |-> key[2], view |-> v]}
                /\ viewLog' = Append(viewLog, Logged("Register", dbName, v.Name, v))
                /\ vret' = [op |-> "Register", db |-> dbName, name |-> v.Name,
                            view |-> v, err |-> "nil"]
        /\ UNCHANGED notViewVars

\* The nil *View.
NilView == [Name |-> <<>>, Def |-> 0]

\* Delete(db, name): not-found if the key is absent, else remove.
DeleteViewKeepsEntry(dbName, viewName) ==
    LET key == ViewKey(dbName, viewName)
    IN  /\ Len(viewLog) < MaxViewOps
        /\ IF HasView(views, key)
           THEN /\ views' = views
                /\ viewLog' = Append(viewLog, Logged("Delete", dbName, viewName, NilView))
                /\ vret' = [op |-> "Delete", db |-> dbName, name |-> viewName,
                            view |-> NilView, err |-> "nil"]
           ELSE /\ views' = views
                /\ viewLog' = viewLog
                /\ vret' = [op |-> "Delete", db |-> dbName, name |-> viewName,
                            view |-> NilView, err |-> "ErrNonExistingView"]
        /\ UNCHANGED notViewVars

DeleteView(dbName, viewName) ==
    LET key == ViewKey(dbName, viewName)
    IN  /\ Len(viewLog) < MaxViewOps
        /\ IF HasView(views, key)
           THEN /\ views' = views \ ViewsAt(views, key)
                /\ viewLog' = Append(viewLog, Logged("Delete", dbName, viewName, NilView))
                /\ vret' = [op |-> "Delete", db |-> dbName, name |-> viewName,
                            view |-> NilView, err |-> "nil"]
           ELSE /\ views' = views
                /\ viewLog' = viewLog
                /\ vret' = [op |-> "Delete", db |-> dbName, name |-> viewName,
                            view |-> NilView, err |-> "ErrNonExistingView"]
        /\ UNCHANGED notViewVars

\* View(db, name): not-found if the key is absent, else the stored view.
GetView(dbName, viewName) ==
    LET key == ViewKey(dbName, viewName)
    IN  /\ IF HasView(views, key)
           THEN \E e \in ViewsAt(views, key) :
                    vret' = [op |-> "View", db |-> dbName, name |-> viewName,
                             view |-> e.view, err |-> "nil"]
           ELSE vret' = [op |-> "View", db |-> dbName, name |-> viewName,
                         view |-> NilView, err |-> "ErrNonExistingView"]
        /\ UNCHANGED <<views, viewLog>>
        /\ UNCHANGED notViewVars

\* The views of a set of entries as a list, in the order the entries are met.
ViewList(order) == [i \in DOMAIN order |-> order[i].view]

\* ViewsInDatabase(db): the views of the entries whose database is db.
ViewsInDatabase(dbName) ==
    \E order \in Orders({e \in views : e.db = dbName}) :
        /\ vret' = [op |-> "ViewsInDatabase", db |-> dbName, val |-> ViewList(order)]
        /\ UNCHANGED <<views, viewLog>>
        /\ UNCHANGED notViewVars

\* AllViews(): the views of all entries.
AllViews ==
    \E order \in Orders(views) :
        /\ vret' = [op |-> "AllViews", val |-> ViewList(order)]
        /\ UNCHANGED <<views, viewLog>>
        /\ UNCHANGED notViewVars

\* NewViewRegistry
InitView ==
    /\ views = {}
    /\ viewLog = <<>>
    /\ vret = [op |-> "new"]

NextView ==
    \/ \E dbName \in DbNames, v \in Views : RegisterView(dbName, v)
    \/ \E dbName \in DbNames, viewName \in ViewNames : DeleteView(dbName, viewName)
    \/ \E dbName \in DbNames, viewName \in ViewNames : GetView(dbName, viewName)
    \/ \E dbName \in DbNames : ViewsInDatabase(dbName)
    \/ AllViews

-----------------------------------------------------------------------------
(* plan.Update and its updateIter (sql/plan/update.go).                    *)
(*                                                                         *)
(* The plan below the Update node is a tree of at most MaxNodes nodes:     *)
(* node 1 is u.Child, parent[j] < j is the parent of node j, and the       *)
(* children of a node are its Children() in ascending index.  Only nodes   *)
(* of no special kind ("Node") have children.                              *)
(*                                                                         *)
(* A sql.Table is the sequence of its layers, outermost first: every layer *)
(* but the last is a sql.TableWrapper around the rest; a layer i > 0 is a  *)
(* sql.UpdatableTable of identity i, a layer 0 is not updatable.           *)

\* A plain table, an updatable one, a wrapper around either.
Tables == {<<0>>, <<1>>, <<0, 2>>, <<0, 0>>}

\* The nodes of a plan.
PlanNodes ==
    {[kind |-> "UpdatableTable", id |-> i, table |-> <<>>] : i \in 1..2}
    \cup {[kind |-> k, id |-> 0, table |-> t] :
            k \in {"IndexedTableAccess", "ResolvedTable", "TableWrapper"}, t \in Tables}
    \cup {[kind |-> "Node", id |-> 0, table |-> <<>>]}

\* The plans of n nodes.
PlansOf(n) ==
    {pl \in [parent : [1..n -> 0..(n - 1)], node : [1..n -> PlanNodes]] :
        /\ pl.parent[1] = 0
        /\ \A j \in 2..n : /\ pl.parent[j] \in 1..(j - 1)
                           /\ pl.node[pl.parent[j]].kind = "Node"}

Plans == UNION {PlansOf(n) : n \in 1..MaxNodes}

\* The elements of a set of numbers in ascending order.
Ascending(S) ==
    CHOOSE f \in [1..Cardinality(S) -> S] : \A a, b \in DOMAIN f : a < b => f[a] < f[b]

\* node.Children()
Children(pl, i) == Ascending({j \in DOMAIN pl.parent : pl.parent[j] = i})

\* return nil, ErrUpdateNotSupported.New()
NotSupported == [tbl |-> 0, err |-> "ErrUpdateNotSupported"]

RECURSIVE getUpdatableTable(_)
getUpdatableTable(t) ==
    IF t[1] > 0 THEN [tbl |-> t[1], err |-> "nil"]
    ELSE IF Len(t) > 1 THEN getUpdatableTable(Tail(t))
    ELSE NotSupported

\* if updater != nil { return updater, nil }
FoundInNever(r) == FALSE

FoundIn(r) == r.tbl # 0

RECURSIVE getUpdatable(_, _), getUpdatableAmong(_, _)
getUpdatable(pl, i) ==
    LET node == pl.node[i]
    IN  CASE node.kind = "UpdatableTable" -> [tbl |-> node.id, err |-> "nil"]
          [] node.kind = "IndexedTableAccess" -> getUpdatableTable(node.table)
          [] node.kind = "ResolvedTable" -> getUpdatableTable(node.table)
          [] node.kind = "TableWrapper" -> getUpdatableTable(node.table)
          [] OTHER -> getUpdatableAmong(pl, Children(pl, i))

\* for _, child := range node.Children() { ... } return nil, ErrUpdateNotSupported
getUpdatableAmong(pl, cs) ==
    IF cs = <<>> THEN NotSupported
    ELSE LET r == getUpdatable(pl, Head(cs))
         IN  IF FoundIn(r) THEN [tbl |-> r.tbl, err |-> "nil"]
             ELSE getUpdatableAmong(pl, Tail(cs))

\* The errors u.Child.RowIter may return.
ChildOpenErrs == {"nil", "ErrChildRowIter"}

\* Update.RowIter, called once on a new Update node.
RowIter(pl) ==
    LET r == getUpdatable(pl, 1)
    IN  /\ uret.op = "new"
        /\ IF r.err # "nil"
           THEN /\ uret' = [op |-> "RowIter", plan |-> pl, found |-> r.tbl, err |-> r.err]
                /\ UNCHANGED <<updIter, updaterMade, childOpened>>
           ELSE /\ updaterMade' = TRUE
                /\ childOpened' = TRUE
                /\ \E e \in ChildOpenErrs :
                    /\ updIter' = IF e = "nil" THEN "open" ELSE "none"
                    /\ uret' = [op |-> "RowIter", plan |-> pl, found |-> r.tbl, err |-> e]
        /\ UNCHANGED <<updClosed, nNext, nUpdate, nDiffer, closeLog>>
        /\ UNCHANGED notUpdVars

\* Column values: 0 cannot be converted to the column's type, 1 and 2 are
\* values of the type, 3 is a value of another type that converts to 1.
Values == 0..3

\* The target schema: two columns of the same type.
Schema == <<"T", "T">>

\* The paired rows (old || new) the child iterator yields.
Rows == [1..(2 * Len(Schema)) -> Values]

\* The column type's conversion of a value; 0 stands for its failure.
Convert(v) == IF v = 3 THEN 1 ELSE v

\* schema[i].Type.Compare(l, r): "error", or whether the values are equal.
Compare(l, r) ==
    IF Convert(l) = 0 \/ Convert(r) = 0 THEN "error"
    ELSE IF Convert(l) = Convert(r) THEN "true" ELSE "false"

RECURSIVE EqualsFrom(_, _, _)
EqualsFrom(old, new, i) ==
    IF i > Len(old) THEN "true"
    ELSE LET c == Compare(old[i], new[i])
         IN  IF c = "true" THEN EqualsFrom(old, new, i + 1) ELSE c

\* oldRow.Equals(newRow, schema): "true", "false" or "error"
Equals(old, new, schema) ==
    IF Len(old) # Len(new) \/ Len(old) # Len(schema) THEN "false"
    ELSE EqualsFrom(old, new, 1)

\* oldAndNewRow[:len(oldAndNewRow)/2]
OldHalf(row) == SubSeq(row, 1, Len(row) \div 2)

\* oldAndNewRow[len(oldAndNewRow)/2:]
NewHalf(row) == SubSeq(row, (Len(row) \div 2) + 1, Len(row))

\* Whether the halves of a paired row differ under the schema: some column
\* compares unequal and every column before it compares equal.
HalvesDiffer(row) ==
    \E i \in DOMAIN Schema :
        /\ Compare(OldHalf(row)[i], NewHalf(row)[i]) = "false"
        /\ \A j \in 1..(i - 1) : Compare(OldHalf(row)[j], NewHalf(row)[j]) = "true"

\* What u.childIter.Next() may return.
ChildNexts ==
    [row : Rows, err : {"nil"}] \cup [row : {<<>>}, err : {"io.EOF", "ErrChildNext"}]

\* The errors u.updater.Update may return.
UpdateErrs == {"nil", "ErrUpdate"}

\* if !equals { err = u.updater.Update(u.ctx, oldRow, newRow) }
WritesAlways(equals) == equals # "error"

Writes(equals) == equals = "false"

\* if err != nil { return nil, err }; return oldAndNewRow, nil
YieldedAlways(e, row) == row

Yielded(e, row) == IF e = "nil" THEN row ELSE <<>>

\* updateIter.Next
UpdateNext ==
    /\ updIter = "open"
    /\ nNext < MaxNext
    /\ nNext' = nNext + 1
    /\ \E in \in ChildNexts :
        IF in.err # "nil"
        THEN /\ uret' = [op |-> "Next", in |-> in, compared |-> FALSE, calls |-> <<>>,
                         updErr |-> "nil", val |-> <<>>, err |-> in.err]
             /\ UNCHANGED <<nUpdate, nDiffer>>
        ELSE LET oldRow == OldHalf(in.row)
                 newRow == NewHalf(in.row)
                 equals == Equals(oldRow, newRow, Schema)
             IN  /\ nDiffer' = IF HalvesDiffer(in.row) THEN nDiffer + 1 ELSE nDiffer
                 /\ IF equals = "error"
                    THEN /\ uret' = [op |-> "Next", in |-> in, compared |-> TRUE,
                                     calls |-> <<>>, updErr |-> "nil", val |-> <<>>,
                                     err |-> "ErrCompare"]
                         /\ nUpdate' = nUpdate
                    ELSE IF Writes(equals)
                    THEN /\ nUpdate' = nUpdate + 1
                         /\ \E e \in UpdateErrs :
                              uret' = [op |-> "Next", in |-> in, compared |-> TRUE,
                                       calls |-> <<<<oldRow, newRow>>>>,
                                       updErr |-> e, val |-> Yielded(e, in.row),
                                       err |-> e]
                    ELSE /\ uret' = [op |-> "Next", in |-> in, compared |-> TRUE,
                                     calls |-> <<>>, updErr |-> "nil", val |-> in.row,
                                     err |-> "nil"]
                         /\ nUpdate' = nUpdate
    /\ UNCHANGED <<updIter, updClosed, updaterMade, childOpened, closeLog>>
    /\ UNCHANGED notUpdVars

\* The errors u.updater.Close and u.childIter.Close may return.
UpdaterCloseErrs == {"nil", "ErrUpdaterClose"}

ChildCloseErrs == {"nil", "ErrChildClose"}

\* updateIter.Close
UpdateClose ==
    /\ updIter = "open"
    /\ IF ~updClosed
       THEN /\ updClosed' = TRUE
            /\ \E ue \in UpdaterCloseErrs :
                IF ue # "nil"
                THEN /\ closeLog' = Append(closeLog, "updater.Close")
                     /\ uret' = [op |-> "Close", first |-> TRUE, updaterErr |-> ue,
                                 childErr |-> "nil", err |-> ue]
                ELSE \E ce \in ChildCloseErrs :
                     /\ closeLog' = closeLog \o <<"updater.Close", "child.Close">>
                     /\ uret' = [op |-> "Close", first |-> TRUE, updaterErr |-> ue,
                                 childErr |-> ce, err |-> ce]
       ELSE /\ uret' = [op |-> "Close", first |-> FALSE, updaterErr |-> "nil",
                        childErr |-> "nil", err |-> "nil"]
            /\ UNCHANGED <<updClosed, closeLog>>
    /\ UNCHANGED <<updIter, updaterMade, childOpened, nNext, nUpdate, nDiffer>>
    /\ UNCHANGED notUpdVars

\* NewUpdate: no iterator yet.
InitUpd ==
    /\ updIter = "none"
    /\ updClosed = FALSE
    /\ updaterMade = FALSE
    /\ childOpened = FALSE
    /\ nNext = 0
    /\ nUpdate = 0
    /\ nDiffer = 0
    /\ closeLog = <<>>
    /\ uret = [op |-> "new"]

NextUpd ==
    \/ \E pl \in Plans : RowIter(pl)
    \/ UpdateNext
    \/ UpdateClose

-----------------------------------------------------------------------------
(* sql.Context: NewContext and the derivations Span, NewSubContext and     *)
(* WithContext.  A context.Context is [parent, kind, done]: its parent (0  *)
(* for none), how it was made ("cancel" by context.WithCancel, "value" by  *)
(* opentracing.ContextWithSpan, "background"), and whether Done() is       *)
(* closed.  A *BaseSession, a registry, a memory manager are named by the  *)
(* number of the NewContext call that made them.                           *)

\* The value NewContext number r gives a field (its options or defaults).
FieldOf(field, r) == <<field, r>>

\* The sql.Context NewContext number r builds around the scope g.
NewContextValue(g, r) ==
    [scope |-> g,
     Session |-> FieldOf("Session", r),
     IndexRegistry |-> FieldOf("IndexRegistry", r),
     ViewRegistry |-> FieldOf("ViewRegistry", r),
     Memory |-> FieldOf("Memory", r),
     pid |-> FieldOf("pid", r),
     query |-> FieldOf("query", r),
     queryTime |-> FieldOf("queryTime", r),
     tracer |-> FieldOf("tracer", r),
     rootSpan |-> FieldOf("rootSpan", r),
     from |-> 0,
     how |-> "NewContext"]

\* What a new Session holds: the state no mutating call has touched.
NewSessionData == "new"

\* NewContext(ctx, opts...) with ctx made by context.WithCancel(Background()).
NewContext ==
    /\ Len(ctxs) < MaxCtx
    /\ Cardinality({c \in DOMAIN ctxs : ctxs[c].how = "NewContext"}) < MaxRoots
    /\ goctx' = Append(goctx, [parent |-> 0, kind |-> "cancel", done |-> FALSE])
    /\ ctxs' = Append(ctxs, NewContextValue(Len(goctx) + 1, Len(ctxs) + 1))
    /\ sessData' = sessData @@ (FieldOf("Session", Len(ctxs) + 1) :> NewSessionData)
    /\ cret' = [op |-> "NewContext", ctx |-> Len(ctxs) + 1]
    /\ UNCHANGED cancelLog
    /\ UNCHANGED notCtxVars

\* pid: c.Pid()
ForkPidZero(c) == FieldOf("pid", 0)

ForkPid(c) == ctxs[c].pid

\* The sql.Context a derivation of c builds around the scope g.
Fork(c, g, how) ==
    [scope |-> g,
     Session |-> ctxs[c].Session,
     IndexRegistry |-> ctxs[c].IndexRegistry,
     ViewRegistry |-> ctxs[c].ViewRegistry,
     Memory |-> ctxs[c].Memory,
     pid |-> ForkPid(c),
     query |-> ctxs[c].query,
     queryTime |-> ctxs[c].queryTime,
     tracer |-> ctxs[c].tracer,
     rootSpan |-> ctxs[c].rootSpan,
     from |-> c,
     how |-> how]

\* A context.Context derived from g: done at once if g already is.
Derived(g, kind) ==
    [parent |-> g, kind |-> kind, done |-> IF g = 0 THEN FALSE ELSE goctx[g].done]

\* Context.Span: ctx := opentracing.ContextWithSpan(c.Context, span)
Span(c) ==
    /\ Len(ctxs) < MaxCtx
    /\ goctx' = Append(goctx, Derived(ctxs[c].scope, "value"))
    /\ ctxs' = Append(ctxs, Fork(c, Len(goctx) + 1, "Span"))
    /\ cret' = [op |-> "Span", ctx |-> Len(ctxs) + 1]
    /\ UNCHANGED <<cancelLog, sessData>>
    /\ UNCHANGED notCtxVars

\* ctx, cancelFunc := context.WithCancel(c.Context)
SubScopeDetached(c) == 0

SubScopeParent(c) == ctxs[c].scope

\* Context.NewSubContext
NewSubContext(c) ==
    /\ Len(ctxs) < MaxCtx
    /\ goctx' = Append(goctx, Derived(SubScopeParent(c), "cancel"))
    /\ ctxs' = Append(ctxs, Fork(c, Len(goctx) + 1, "NewSubContext"))
    /\ cret' = [op |-> "NewSubContext", ctx |-> Len(ctxs) + 1]
    /\ UNCHANGED <<cancelLog, sessData>>
    /\ UNCHANGED notCtxVars

\* Context.WithContext(ctx), ctx being a context.Context made before.
WithContext(c, g) ==
    /\ Len(ctxs) < MaxCtx
    /\ ctxs' = Append(ctxs, Fork(c, g, "WithContext"))
    /\ cret' = [op |-> "WithContext", ctx |-> Len(ctxs) + 1]
    /\ UNCHANGED <<goctx, cancelLog, sessData>>
    /\ UNCHANGED notCtxVars

\* The contexts a cancellation of g reaches: g and what was derived from it.
RECURSIVE Below(_, _)
Below(gs, g) ==
    {g} \cup UNION {Below(gs, h) : h \in {k \in DOMAIN gs : gs[k].parent = g}}

\* The cancel function of the scope g (returned by context.WithCancel).
Cancel(g) ==
    /\ goctx[g].kind = "cancel"
    /\ g \notin cancelLog
    /\ goctx' = [k \in DOMAIN goctx |->
                    IF k \in Below(goctx, g) THEN [goctx[k] EXCEPT !.done = TRUE]
                    ELSE goctx[k]]
    /\ cancelLog' = cancelLog \cup {g}
    /\ cret' = [op |-> "cancel", scope |-> g]
    /\ UNCHANGED <<ctxs, sessData>>
    /\ UNCHANGED notCtxVars

\* The Session methods that change it, called through a context: Set, Warn
\* and AddLock (the methods of the embedded Session act on c.Session).  What
\* a Session holds is named by the last of these calls it served.
SessionMutations == {"Set", "Warn", "AddLock"}

Mutate(c, m) ==
    /\ sessData[ctxs[c].Session] # m
    /\ sessData' = [sessData EXCEPT ![ctxs[c].Session] = m]
    /\ cret' = [op |-> m, ctx |-> c]
    /\ UNCHANGED <<ctxs, goctx, cancelLog>>
    /\ UNCHANGED notCtxVars

\* No context yet.
InitCtx ==
    /\ ctxs = <<>>
    /\ goctx = <<>>
    /\ cancelLog = {}
    /\ sessData = <<>>
    /\ cret = [op |-> "new"]

NextCtx ==
    \/ NewContext
    \/ \E c \in DOMAIN ctxs : Span(c)
    \/ \E c \in DOMAIN ctxs : NewSubContext(c)
    \/ \E c \in DOMAIN ctxs, g \in DOMAIN goctx : WithContext(c, g)
    \/ \E g \in DOMAIN goctx : Cancel(g)
    \/ \E c \in DOMAIN ctxs, m \in SessionMutations : Mutate(c, m)

-----------------------------------------------------------------------------
(* RunWithNowFunc, one step per statement, for each calling thread:        *)
(* "idle" (not in a call), "lock" (at ctxNowFuncMutex.Lock()), "save" (at  *)
(* initialNow := ctxNowFunc), "install" (at ctxNowFunc = nowFunc), "fn"    *)
(* (the callback is executing), "restore" (the deferred restore),          *)
(* "unlock" (the deferred Unlock, after which the call returns).           *)

Threads == 1..NowThreads

\* The functions callers supply; 0 stands for time.Now.
NowFuncs == 1..NumNowFuncs

\* A thread calls RunWithNowFunc(nowFunc, fn).
NowCall(t, f) ==
    /\ rpc[t] = "idle"
    /\ nCalls[t] < MaxNowCalls
    /\ nCalls' = [nCalls EXCEPT ![t] = @ + 1]
    /\ nowArg' = [nowArg EXCEPT ![t] = f]
    /\ rpc' = [rpc EXCEPT ![t] = "lock"]
    /\ UNCHANGED <<ctxNowFunc, ctxNowFuncMutex, initialNow, fnErr, nowBefore, nret>>
    /\ UNCHANGED notNowVars

\* ctxNowFuncMutex.Lock() returns only when no thread holds the mutex.
MutexIgnored == TRUE

MutexFree == ctxNowFuncMutex = 0

NowLock(t) ==
    /\ rpc[t] = "lock"
    /\ MutexFree
    /\ ctxNowFuncMutex' = t
    /\ rpc' = [rpc EXCEPT ![t] = "save"]
    /\ UNCHANGED <<ctxNowFunc, nowArg, initialNow, fnErr, nowBefore, nCalls, nret>>
    /\ UNCHANGED notNowVars

\* initialNow := ctxNowFunc
NowSave(t) ==
    /\ rpc[t] = "save"
    /\ initialNow' = [initialNow EXCEPT ![t] = ctxNowFunc]
    /\ rpc' = [rpc EXCEPT ![t] = "install"]
    /\ UNCHANGED <<ctxNowFunc, ctxNowFuncMutex, nowArg, fnErr, nowBefore, nCalls, nret>>
    /\ UNCHANGED notNowVars

\* ctxNowFunc = nowFunc
NowInstall(t) ==
    /\ rpc[t] = "install"
    /\ nowBefore' = [nowBefore EXCEPT ![t] = ctxNowFunc]
    /\ ctxNowFunc' = nowArg[t]
    /\ rpc' = [rpc EXCEPT ![t] = "fn"]
    /\ UNCHANGED <<ctxNowFuncMutex, nowArg, initialNow, fnErr, nCalls, nret>>
    /\ UNCHANGED notNowVars

\* The errors the callback may return.
FnErrs == {"nil", "ErrFn"}

\* return fn(): the callback ends; the deferred calls are still to run.
NowFn(t, e) ==
    /\ rpc[t] = "fn"
    /\ fnErr' = [fnErr EXCEPT ![t] = e]
    /\ rpc' = [rpc EXCEPT ![t] = "restore"]
    /\ UNCHANGED <<ctxNowFunc, ctxNowFuncMutex, nowArg, initialNow, nowBefore, nCalls, nret>>
    /\ UNCHANGED notNowVars

\* defer func() { ctxNowFunc = initialNow }()
NowRestore(t) ==
    /\ rpc[t] = "restore"
    /\ ctxNowFunc' = initialNow[t]
    /\ rpc' = [rpc EXCEPT ![t] = "unlock"]
    /\ UNCHANGED <<ctxNowFuncMutex, nowArg, initialNow, fnErr, nowBefore, nCalls, nret>>
    /\ UNCHANGED notNowVars

\* defer ctxNowFuncMutex.Unlock(), and the call returns fn's error.
NowUnlock(t) ==
    /\ rpc[t] = "unlock"
    /\ ctxNowFuncMutex' = 0
    /\ rpc' = [rpc EXCEPT ![t] = "idle"]
    /\ nret' = [thread |-> t, err |-> fnErr[t], now |-> ctxNowFunc, before |-> nowBefore[t]]
    /\ UNCHANGED <<ctxNowFunc, nowArg, initialNow, fnErr, nowBefore, nCalls>>
    /\ UNCHANGED notNowVars

\* var ctxNowFunc = time.Now; var ctxNowFuncMutex = &sync.Mutex{}
InitNow ==
    /\ ctxNowFunc = 0
    /\ ctxNowFuncMutex = 0
    /\ rpc = [t \in Threads |-> "idle"]
    /\ nowArg = [t \in Threads |-> 0]
    /\ initialNow = [t \in Threads |-> 0]
    /\ fnErr = [t \in Threads |-> "nil"]
    /\ nowBefore = [t \in Threads |-> 0]
    /\ nCalls = [t \in Threads |-> 0]
    /\ nret = [thread |-> 0]

NextNow ==
    \/ \E t \in Threads, f \in NowFuncs : NowCall(t, f)
    \/ \E t \in Threads : NowLock(t)
    \/ \E t \in Threads : NowSave(t)
    \/ \E t \in Threads : NowInstall(t)
    \/ \E t \in Threads, e \in FnErrs : NowFn(t, e)
    \/ \E t \in Threads : NowRestore(t)
    \/ \E t \in Threads : NowUnlock(t)

-----------------------------------------------------------------------------
(* BaseSession and its lock s.mu, one thread per caller.  A method is      *)
(* [name, field, write, lock]: the field of the session it touches,        *)
(* whether it writes it, and how it takes s.mu ("Lock", "RLock", or "none" *)
(* when its body takes no lock).  A thread is "idle", at "lock" (waiting   *)
(* for s.mu), or at "access" (touching the field; a method that locks      *)
(* holds s.mu until it returns).                                           *)

SessionThreads == 1..SessThreads

\* A method of BaseSession that touches shared state.
Method(name, field, write, lock) ==
    [name |-> name, field |-> field, write |-> write, lock |-> lock]

SessionMethods ==
    {Method("Set", "config", TRUE, "Lock"),
     Method("Get", "config", FALSE, "RLock"),
     Method("GetAll", "config", FALSE, "RLock"),
     Method("GetCurrentDatabase", "currentDB", FALSE, "none"),
     Method("SetCurrentDatabase", "currentDB", TRUE, "none"),
     Method("Warn", "warnings", TRUE, "Lock"),
     Method("Warnings", "warnings", FALSE, "RLock"),
     Method("ClearWarnings", "warnings", TRUE, "Lock"),
     Method("WarningCount", "warnings", FALSE, "RLock"),
     Method("AddLock", "locks", TRUE, "Lock"),
     Method("DelLock", "locks", TRUE, "Lock"),
     Method("IterLocks", "locks", FALSE, "RLock"),
     Method("GetQueriedDatabase", "queriedDb", FALSE, "none"),
     Method("SetQueriedDatabase", "queriedDb", TRUE, "none"),
     Method("SetLastQueryInfo", "lastQueryInfo", TRUE, "Lock"),
     Method("GetLastQueryInfo", "lastQueryInfo", FALSE, "none")}

\* No method.
NoMethod == Method("", "", FALSE, "none")

\* A thread calls a method: it goes to s.mu if the method locks, else
\* straight to the field.
MuCall(t, m) ==
    /\ spc[t].at = "idle"
    /\ spc' = [spc EXCEPT ![t] = [m |-> m, at |-> IF m.lock = "none" THEN "access" ELSE "lock"]]
    /\ UNCHANGED <<muWriter, muReaders>>
    /\ UNCHANGED notMuVars

\* s.mu.Lock() / s.mu.RLock() returns.
MuAcquire(t) ==
    /\ spc[t].at = "lock"
    /\ muWriter = 0
    /\ IF spc[t].m.lock = "Lock"
       THEN /\ muReaders = {}
            /\ muWriter' = t
            /\ UNCHANGED muReaders
       ELSE /\ muReaders' = muReaders \cup {t}
            /\ UNCHANGED muWriter
    /\ spc' = [spc EXCEPT ![t].at = "access"]
    /\ UNCHANGED notMuVars

\* The method returns; the deferred Unlock / RUnlock runs if it locked.
MuReturn(t) ==
    /\ spc[t].at = "access"
    /\ muWriter' = IF muWriter = t THEN 0 ELSE muWriter
    /\ muReaders' = muReaders \ {t}
    /\ spc' = [spc EXCEPT ![t] = [m |-> NoMethod, at |-> "idle"]]
    /\ UNCHANGED notMuVars

\* NewBaseSession: mu: &sync.RWMutex{}
InitMu ==
    /\ muWriter = 0
    /\ muReaders = {}
    /\ spc = [t \in SessionThreads |-> [m |-> NoMethod, at |-> "idle"]]

NextMu ==
    \/ \E t \in SessionThreads, m \in SessionMethods : MuCall(t, m)
    \/ \E t \in SessionThreads : MuAcquire(t)
    \/ \E t \in SessionThreads : MuReturn(t)

-----------------------------------------------------------------------------
(* BaseSession: named locks.  AddLock, DelLock and IterLocks hold s.mu for *)
(* their whole body, so each is one step.                                  *)

LockNames == {"a", "b", "c"}

\* s.locks[lockName] = true
AddLock(lockName) ==
    /\ Len(lockLog) < MaxLockOps
    /\ locks' = locks \cup {lockName}
    /\ lockLog' = Append(lockLog, [op |-> "AddLock", name |-> lockName])
    /\ lret' = [op |-> "AddLock", name |-> lockName, err |-> "nil"]
    /\ UNCHANGED notLockVars

\* delete(s.locks, lockName)
DelLock(lockName) ==
    /\ Len(lockLog) < MaxLockOps
    /\ locks' = locks \ {lockName}
    /\ lockLog' = Append(lockLog, [op |-> "DelLock", name |-> lockName])
    /\ lret' = [op |-> "DelLock", name |-> lockName, err |-> "nil"]
    /\ UNCHANGED notLockVars

\* err := cb(name), for a callback that fails on the names in fails; its
\* error for a name is written as that name.
Callback(fails, name) == IF name \in fails THEN name ELSE "nil"

\* if err != nil { return err }
AbortsNever(err) == FALSE

Aborts(err) == err # "nil"

\* for name := range s.locks { ... } return nil, the range visiting in order
RECURSIVE IterFrom(_, _, _)
IterFrom(order, fails, i) ==
    IF i > Len(order) THEN [visited |-> order, err |-> "nil"]
    ELSE LET err == Callback(fails, order[i])
         IN  IF Aborts(err) THEN [visited |-> SubSeq(order, 1, i), err |-> err]
             ELSE IterFrom(order, fails, i + 1)

IterLocks(fails) ==
    \E order \in Orders(locks) :
        LET r == IterFrom(order, fails, 1)
        IN  /\ lret' = [op |-> "IterLocks", fails |-> fails, visited |-> r.visited,
                        err |-> r.err]
            /\ UNCHANGED <<locks, lockLog>>
            /\ UNCHANGED notLockVars

\* NewBaseSession: locks: make(map[string]bool)
InitLocks ==
    /\ locks = {}
    /\ lockLog = <<>>
    /\ lret = [op |-> "new"]

NextLocks ==
    \/ \E lockName \in LockNames : AddLock(lockName)
    \/ \E lockName \in LockNames : DelLock(lockName)
    \/ \E fails \in SUBSET LockNames : IterLocks(fails)

-----------------------------------------------------------------------------
(* spanIter, the tracing decorator NewSpanIter builds when the tracer is   *)
(* not the no-op tracer.  Durations are whole numbers.                     *)

\* time.Since(start)
Elapsed == 0..MaxElapsed

\* The rows of the inner iterator; NoRow is the nil row.
SpanRows == {1, 2}

NoRow == 0

\* What the inner iterator's Next may return.
InnerNexts ==
    [row : SpanRows, err : {"nil"}] \cup [row : {NoRow}, err : {"io.EOF", "ErrInner", "ErrOther"}]

\* A call on the span or the inner iterator, made by the method by.
SpanCall(ev, by, rows, total, max, min, avg, msg) ==
    [ev |-> ev, by |-> by, rows |-> rows, total |-> total, max |-> max, min |-> min,
     avg |-> avg, msg |-> msg]

\* finish(): span.FinishWithOptions with rows, total, max, min and avg.
FinishCall(by) ==
    SpanCall("finish", by, spCount, spTotal, spMax, spMin,
             IF spCount > 0 THEN spTotal \div spCount ELSE 0, "")

\* finishWithError(err): span.FinishWithOptions with err.Error().
FinishWithErrorCall(by, err) == SpanCall("finishWithError", by, 0, 0, 0, 0, 0, err)

\* i.iter.Close(ctx)
InnerCloseCall == SpanCall("iter.Close", "Close", 0, 0, 0, 0, 0, "")

\* i.count++
CountAfterSkips == spCount

CountAfter == spCount + 1

\* spanIter.Next, with updateTimings
SpanNext ==
    /\ nSpanNext < MaxSpanNext
    /\ nSpanNext' = nSpanNext + 1
    /\ \E in \in InnerNexts, elapsed \in Elapsed :
        IF in.err = "io.EOF"
        THEN /\ spLog' = Append(spLog, FinishCall("Next"))
             /\ spDone' = TRUE
             /\ spret' = [op |-> "Next", in |-> in, row |-> NoRow, err |-> in.err]
             /\ UNCHANGED <<spCount, spMax, spMin, spTotal, spSamples>>
        ELSE IF in.err # "nil"
        THEN /\ spLog' = Append(spLog, FinishWithErrorCall("Next", in.err))
             /\ spDone' = TRUE
             /\ spret' = [op |-> "Next", in |-> in, row |-> NoRow, err |-> in.err]
             /\ UNCHANGED <<spCount, spMax, spMin, spTotal, spSamples>>
        ELSE /\ spCount' = CountAfter
             /\ spMax' = IF spMax < elapsed THEN elapsed ELSE spMax
             /\ spMin' = IF spMin > elapsed \/ spMin = 0 THEN elapsed ELSE spMin
             /\ spTotal' = spTotal + elapsed
             /\ spSamples' = Append(spSamples, elapsed)
             /\ spret' = [op |-> "Next", in |-> in, row |-> in.row, err |-> "nil"]
             /\ UNCHANGED <<spLog, spDone>>
    /\ UNCHANGED nSpanClose
    /\ UNCHANGED notSpanVars

\* if !i.done { i.finish() }
FinishesAlways == TRUE

Finishes == ~spDone

\* The errors the inner iterator's Close may return.
InnerCloseErrs == {"nil", "ErrInnerClose"}

\* spanIter.Close
SpanClose ==
    /\ nSpanClose < MaxSpanClose
    /\ nSpanClose' = nSpanClose + 1
    /\ IF Finishes
       THEN /\ spLog' = spLog \o <<FinishCall("Close"), InnerCloseCall>>
            /\ spDone' = TRUE
       ELSE /\ spLog' = Append(spLog, InnerCloseCall)
            /\ UNCHANGED spDone
    /\ \E e \in InnerCloseErrs : spret' = [op |-> "Close", err |-> e]
    /\ UNCHANGED <<spCount, spMax, spMin, spTotal, nSpanNext, spSamples>>
    /\ UNCHANGED notSpanVars

\* &spanIter{span: span, iter: iter}
InitSpan ==
    /\ spDone = FALSE
    /\ spCount = 0
    /\ spMax = 0
    /\ spMin = 0
    /\ spTotal = 0
    /\ spLog = <<>>
    /\ nSpanNext = 0
    /\ nSpanClose = 0
    /\ spret = [op |-> "new"]
    /\ spSamples = <<>>

NextSpan ==
    \/ SpanNext
    \/ SpanClose

-----------------------------------------------------------------------------
(* applyUpdateExpressions.  An update expression is one of: set a column   *)
(* to a value (its result is the changed row), fail when a column holds a  *)
(* value (its result is otherwise the row as it is), fail always, or give  *)
(* a value that is not a row.                                              *)

ApplyValues == {1, 2}

ApplyRows == [1..ApplyCols -> ApplyValues]

UpdateExprs ==
    [kind : {"set", "failIf"}, col : 1..ApplyCols, v : ApplyValues]
        \cup [kind : {"fail", "scalar"}, col : {1}, v : {1}]

\* The lists of at most n update expressions.
RECURSIVE ExprLists(_)
ExprLists(n) ==
    IF n = 0 THEN {<<>>}
    ELSE LET shorter == ExprLists(n - 1)
         IN  shorter \cup {Append(l, e) : l \in {x \in shorter : Len(x) = n - 1},
                                          e \in UpdateExprs}

\* updateExpr.Eval(ctx, row): the value, whether it is a sql.Row, and the error.
Eval(e, row) ==
    CASE e.kind = "set" -> [val |-> [row EXCEPT ![e.col] = e.v], isRow |-> TRUE, err |-> "nil"]
      [] e.kind = "failIf" ->
            IF row[e.col] = e.v THEN [val |-> <<>>, isRow |-> FALSE, err |-> "ErrEval"]
            ELSE [val |-> row, isRow |-> TRUE, err |-> "nil"]
      [] e.kind = "fail" -> [val |-> <<>>, isRow |-> FALSE, err |-> "ErrEval"]
      [] OTHER -> [val |-> <<>>, isRow |-> FALSE, err |-> "nil"]

\* val, err := updateExpr.Eval(ctx, prev)
AgainstInput(prev, row) == row

Against(prev, row) == prev

\* The loop of applyUpdateExpressions from expression i on; evals is the
\* history of the Eval calls made.
RECURSIVE ApplyFrom(_, _, _, _, _)
ApplyFrom(updateExprs, row, i, prev, evals) ==
    IF i > Len(updateExprs) THEN [row |-> prev, err |-> "nil", evals |-> evals]
    ELSE LET arg == Against(prev, row)
             r == Eval(updateExprs[i], arg)
             made == Append(evals, [expr |-> updateExprs[i], row |-> arg])
         IN  IF r.err # "nil" THEN [row |-> <<>>, err |-> r.err, evals |-> made]
             ELSE IF ~r.isRow
             THEN [row |-> <<>>, err |-> "ErrUpdateUnexpectedSetResult", evals |-> made]
             ELSE ApplyFrom(updateExprs, row, i + 1, r.val, made)

applyUpdateExpressions(updateExprs, row) == ApplyFrom(updateExprs, row, 1, row, <<>>)

\* A call of applyUpdateExpressions; the function keeps no state, so one
\* call is explored in a run.
ApplyCall ==
    /\ aret.op = "new"
    /\ \E updateExprs \in ExprLists(MaxExprs), row \in ApplyRows :
        aret' = [op |-> "apply", exprs |-> updateExprs, row |-> row,
                 out |-> applyUpdateExpressions(updateExprs, row)]
    /\ UNCHANGED notApplyVars

InitApply == aret = [op |-> "new"]

NextApply == ApplyCall

-----------------------------------------------------------------------------
(* One goroutine calling BaseSession methods from inside an IterLocks      *)
(* callback.  s.mu is a sync.RWMutex: Lock waits until there is no writer  *)
(* and no reader, RLock until there is no writer; neither knows which      *)
(* goroutine holds it.                                                     *)

\* The session methods a callback (or the goroutine itself) calls.
ReentryOps == {"AddLock", "DelLock", "Set", "Warn", "Get"}

\* s.mu.Lock() in AddLock, DelLock, Set and Warn; s.mu.RLock() in Get.
Exclusive(op) == op # "Get"

\* No session method is being executed.
NoOp == [op |-> "", name |-> "", at |-> "none"]

\* The goroutine calls a session method: from the callback it is in, the
\* method the callback calls, on the name the callback was given; outside
\* IterLocks, any method on any name.
ReCall(op, name) ==
    /\ reop.at = "none"
    /\ \/ reiter = "idle"
       \/ reiter = "cb" /\ op = recb /\ name = recur
    /\ reop' = [op |-> op, name |-> name, at |-> "wait"]
    /\ UNCHANGED <<remu, relocks, reiter, retodo, recb, recur>>
    /\ UNCHANGED notReVars

\* s.mu.Lock() or s.mu.RLock() returns.
ReAcquire ==
    /\ reop.at = "wait"
    /\ IF Exclusive(reop.op)
       THEN /\ ~remu.writer
            /\ remu.readers = 0
            /\ remu' = [remu EXCEPT !.writer = TRUE]
       ELSE /\ ~remu.writer
            /\ remu' = [remu EXCEPT !.readers = @ + 1]
    /\ reop' = [reop EXCEPT !.at = "held"]
    /\ UNCHANGED <<relocks, reiter, retodo, recb, recur>>
    /\ UNCHANGED notReVars

\* The body of the method and its deferred Unlock or RUnlock; a callback
\* that made the call returns nil to the range of IterLocks.
ReReturn ==
    /\ reop.at = "held"
    /\ relocks' = CASE reop.op = "AddLock" -> relocks \cup {reop.name}
                    [] reop.op = "DelLock" -> relocks \ {reop.name}
                    [] OTHER -> relocks
    /\ remu' = IF Exclusive(reop.op) THEN [remu EXCEPT !.writer = FALSE]
               ELSE [remu EXCEPT !.readers = @ - 1]
    /\ reop' = NoOp
    /\ reiter' = IF reiter = "cb" THEN "range" ELSE reiter
    /\ UNCHANGED <<retodo, recb, recur>>
    /\ UNCHANGED notReVars

\* What a callback may do: nothing, or call one session method.
Callbacks == ReentryOps \cup {"nothing"}

\* IterLocks is called: s.mu.RLock(), and the range starts.
ReIterLocks(cb) ==
    /\ reiter = "idle"
    /\ reop.at = "none"
    /\ ~remu.writer
    /\ remu' = [remu EXCEPT !.readers = @ + 1]
    /\ \E order \in Orders(relocks) : retodo' = order
    /\ recb' = cb
    /\ reiter' = "range"
    /\ UNCHANGED <<relocks, recur, reop>>
    /\ UNCHANGED notReVars

\* err := cb(name) for the next name of the range.
ReRange ==
    /\ reiter = "range"
    /\ retodo # <<>>
    /\ retodo' = Tail(retodo)
    /\ recur' = Head(retodo)
    /\ reiter' = IF recb = "nothing" THEN "range" ELSE "cb"
    /\ UNCHANGED <<remu, relocks, recb, reop>>
    /\ UNCHANGED notReVars

\* The range is over: return nil, and the deferred s.mu.RUnlock().
ReIterReturn ==
    /\ reiter = "range"
    /\ retodo = <<>>
    /\ remu' = [remu EXCEPT !.readers = @ - 1]
    /\ reiter' = "idle"
    /\ UNCHANGED <<relocks, retodo, recb, recur, reop>>
    /\ UNCHANGED notReVars

\* NewBaseSession
InitReentry ==
    /\ remu = [writer |-> FALSE, readers |-> 0]
    /\ relocks = {}
    /\ reiter = "idle"
    /\ retodo = <<>>
    /\ recb = "nothing"
    /\ recur = ""
    /\ reop = NoOp

NextReentry ==
    \/ \E op \in ReentryOps, name \in LockNames : ReCall(op, name)
    \/ ReAcquire
    \/ ReReturn
    \/ \E cb \in Callbacks : ReIterLocks(cb)
    \/ ReRange
    \/ ReIterReturn

-----------------------------------------------------------------------------
(* RunWithNowFunc with callbacks that call RunWithNowFunc.  A call in      *)
(* progress is a frame [at, nowFunc, initialNow]: "lock" (at               *)
(* ctxNowFuncMutex.Lock()), "fn" (the callback is executing) or "defer"    *)
(* (the callback has ended and the deferred calls are to run).  A          *)
(* sync.Mutex does not know which goroutine locked it.                     *)

\* The innermost call of a thread.
Top(t) == nestStack[t][Len(nestStack[t])]

\* The thread's stack with the innermost frame replaced.
WithTop(t, frame) ==
    LET st == nestStack[t]
    IN  [nestStack EXCEPT ![t] = [st EXCEPT ![Len(st)] = frame]]

\* A thread calls RunWithNowFunc(nowFunc, fn), from outside or from the
\* callback of the call it is in.
NestCall(t, f) ==
    /\ IF nestStack[t] = <<>> THEN TRUE ELSE Top(t).at = "fn"
    /\ nestCalls[t] < MaxNestCalls
    /\ nestCalls' = [nestCalls EXCEPT ![t] = @ + 1]
    /\ nestStack' = [nestStack EXCEPT
                        ![t] = Append(@, [at |-> "lock", nowFunc |-> f, initialNow |-> 0])]
    /\ UNCHANGED <<nestNow, nestMutex>>
    /\ UNCHANGED notNestVars

\* ctxNowFuncMutex.Lock() returns; initialNow := ctxNowFunc; ctxNowFunc =
\* nowFunc; fn is called.
NestLock(t) ==
    /\ nestStack[t] # <<>>
    /\ Top(t).at = "lock"
    /\ ~nestMutex
    /\ nestMutex' = TRUE
    /\ nestNow' = Top(t).nowFunc
    /\ nestStack' = WithTop(t, [Top(t) EXCEPT !.at = "fn", !.initialNow = nestNow])
    /\ UNCHANGED nestCalls
    /\ UNCHANGED notNestVars

\* The callback's own work ends: return fn().
NestFn(t) ==
    /\ nestStack[t] # <<>>
    /\ Top(t).at = "fn"
    /\ nestStack' = WithTop(t, [Top(t) EXCEPT !.at = "defer"])
    /\ UNCHANGED <<nestNow, nestMutex, nestCalls>>
    /\ UNCHANGED notNestVars

\* The deferred calls: ctxNowFunc = initialNow, ctxNowFuncMutex.Unlock();
\* the call returns.
NestReturn(t) ==
    /\ nestStack[t] # <<>>
    /\ Top(t).at = "defer"
    /\ nestNow' = Top(t).initialNow
    /\ nestMutex' = FALSE
    /\ nestStack' = [nestStack EXCEPT ![t] = SubSeq(@, 1, Len(@) - 1)]
    /\ UNCHANGED nestCalls
    /\ UNCHANGED notNestVars

\* var ctxNowFunc = time.Now; var ctxNowFuncMutex = &sync.Mutex{}
InitNest ==
    /\ nestNow = 0
    /\ nestMutex = FALSE
    /\ nestStack = [t \in Threads |-> <<>>]
    /\ nestCalls = [t \in Threads |-> 0]

\* The steps of one thread.
NestStep(t) ==
    \/ \E f \in NowFuncs : NestCall(t, f)
    \/ NestLock(t)
    \/ NestFn(t)
    \/ NestReturn(t)

NextNest == \E t \in Threads : NestStep(t)

-----------------------------------------------------------------------------
vars == <<sessionVars, procVars, viewVars, updVars, ctxVars, nowVars, muVars, lockVars, spanVars, applyVars, reVars, nestVars>>

Init == InitSession /\ InitProc /\ InitView /\ InitUpd /\ InitCtx /\ InitNow /\ InitMu /\ InitLocks /\ InitSpan /\ InitApply /\ InitReentry /\ InitNest

Next == NextSession \/ NextProc \/ NextView \/ NextUpd \/ NextCtx \/ NextNow \/ NextMu \/ NextLocks \/ NextSpan \/ NextApply \/ NextReentry \/ NextNest

\* The whole program: one session, the procedure cache and the view registry.
Spec == Init /\ [][Next]_vars

\* One component at a time; the others stay as constructed.
SpecSession == Init /\ [][NextSession]_vars

\* The program whose session has already served Preloaded calls of Warn.
InitLoadedProgram == InitSessionLoaded /\ InitProc /\ InitView /\ InitUpd /\ InitCtx /\ InitNow /\ InitMu /\ InitLocks /\ InitSpan /\ InitApply /\ InitReentry /\ InitNest

SpecSessionLoaded == InitLoadedProgram /\ [][NextSession]_vars

SpecProc == Init /\ [][NextProc]_vars

SpecView == Init /\ [][NextView]_vars

SpecUpd == Init /\ [][NextUpd]_vars

SpecCtx == Init /\ [][NextCtx]_vars

SpecNow == Init /\ [][NextNow]_vars

SpecMu == Init /\ [][NextMu]_vars

SpecLocks == Init /\ [][NextLocks]_vars

SpecSpan == Init /\ [][NextSpan]_vars

SpecApply == Init /\ [][NextApply]_vars

SpecReentry == Init /\ [][NextReentry]_vars

SpecNest == Init /\ [][NextNest]_vars

\* Every thread runs whenever it can take a step.
SpecNestFair == SpecNest /\ \A t \in Threads : WF_vars(NestStep(t))

\* The goroutine runs whenever it can take a step.
SpecReentryFair == SpecReentry /\ WF_vars(NextReentry)

-----------------------------------------------------------------------------
(* Session warnings: C1, C2, C3.                                           *)

\* The i-th element of a list Warnings() returned.
ReturnedAt(r, i) ==
    IF i <= Len(r.first) THEN r.first[i] ELSE PreWarning(r.old - (i - Len(r.first)) + 1)

\* The length of a list Warnings() returned.
ReturnedLen(r) == Len(r.first) + r.old

\* C1: no warning is lost.  A step removes a stored warning (the warning at
\* position i is gone or replaced afterwards) only if that warning was
\* already stored when an earlier ClearWarnings call captured the count and
\* no Warn has run since that call (i <= ackDepth); in particular a warning
\* appended after the last acknowledgment survives the next ClearWarnings.
C1_NoWarningLost ==
    [][\A i \in 1..SliceLen(warnings) :
          (i > SliceLen(warnings') \/ SliceAt(warnings', i) # SliceAt(warnings, i))
              => i <= ackDepth]_vars

\* C2: ClearWarnings empties the storage and resets the marker to 0 exactly
\* when the marker equals the number of stored warnings, and otherwise leaves
\* the storage alone and sets the marker to that number; so with unacknowledged
\* warnings stored the first ClearWarnings removes nothing, and a second one
\* with no Warn in between removes them all.
C2_OptimisticClear ==
    [][sret'.op = "ClearWarnings" =>
          /\ IF warncnt = SliceLen(warnings)
             THEN SliceLen(warnings') = 0 /\ warncnt' = 0
             ELSE warnings' = warnings /\ warncnt' = SliceLen(warnings)
          /\ (SliceLen(warnings) > 0 /\ ackDepth = 0) => warnings' = warnings
          /\ ackDepth = SliceLen(warnings) => SliceLen(warnings') = 0]_vars

\* C3: after Warn calls w1..wn and no clearing, the session still stores
\* w1..wn, Warnings() returns <<wn, ..., w1>> and WarningCount() returns n.
C3_WarningsNewestFirst ==
    ~cleared =>
        LET n == SliceLen(warnLog)
        IN  /\ warnings = warnLog
            /\ sret.op = "Warnings" =>
                   /\ ReturnedLen(sret.val) = n
                   /\ \A i \in 1..n : ReturnedAt(sret.val, i) = SliceAt(warnLog, n + 1 - i)
            /\ sret.op = "WarningCount" => sret.val = n

-----------------------------------------------------------------------------
(* ProcedureCache: C4 .. C9.                                               *)

\* Two names that differ at most in letter case.
SameFold(a, b) == ToLower(a) = ToLower(b)

\* The arity of a procedure: its parameter count, unbounded if variadic.
Arity(p) == IF p.Variadic THEN MaxInt ELSE p.NParams

\* What Get(dbName, procedureName, numOfParams) may return.
GetResults(m, dbName, procedureName, numOfParams) ==
    {GetIn(m, dbName, procedureName, numOfParams, order) :
        order \in Orders(GetArities(m, dbName, procedureName))}

\* What AllForDatabase(dbName) may return.
AllResults(m, dbName) ==
    {AllForDatabaseIn(m, dbName, order) : order \in Orders(DbEntries(m, dbName))}

\* The Register calls so far that name the database and the procedure name
\* (names are case-insensitive).
RegsUnder(dbName, procedureName) ==
    {i \in DOMAIN regLog :
        SameFold(regLog[i][1], dbName) /\ SameFold(regLog[i][2].Name, procedureName)}

\* The procedures the Register calls so far leave stored for the database:
\* of the calls with one (database, name, arity), the last.
StoredFor(dbName) ==
    {regLog[i][2] : i \in
        {i \in DOMAIN regLog :
            /\ SameFold(regLog[i][1], dbName)
            /\ \A j \in DOMAIN regLog :
                  (/\ j > i
                   /\ SameFold(regLog[j][1], dbName)
                   /\ SameFold(regLog[j][2].Name, regLog[i][2].Name)
                   /\ Arity(regLog[j][2]) = Arity(regLog[i][2])) => FALSE}}

\* C4: after Register(db, p), Get(db, name of p, arity of p) returns p itself;
\* and Get returns nil when nothing was registered under its (db, name).
C4_RegisterThenGet ==
    /\ pret.op = "Register" =>
           GetResults(dbToProcedureMap, pret.db, pret.proc.Name, Arity(pret.proc))
               = {pret.proc}
    /\ (pret.op = "Get" /\ RegsUnder(pret.db, pret.name) = {}) => pret.val = NilProc

\* The procedures Get finds under its (db, name).
Found(m, dbName, procedureName) ==
    {m[ToLower(dbName)][ToLower(procedureName)][k] :
        k \in GetArities(m, dbName, procedureName)}

C6_LookupCaseInsensitive ==
    \A db1 \in DbNames, db2 \in DbNames :
        SameFold(db1, db2) =>
            /\ AllResults(dbToProcedureMap, db1) = AllResults(dbToProcedureMap, db2)
            /\ \A name1 \in ProcNames, name2 \in ProcNames, n \in Counts :
                   SameFold(name1, name2) =>
                       GetResults(dbToProcedureMap, db1, name1, n)
                           = GetResults(dbToProcedureMap, db2, name2, n)

\* C6, witness: with a 2-parameter "foo" and a variadic "foo" registered under
\* "d", Get("D", "FOO", 3) has returned the variadic one.
C6_Witness ==
    /\ pret.op = "Get"
    /\ pret.db = <<68>>
    /\ pret.name = <<70, 79, 79>>
    /\ pret.count = 3
    /\ pret.val.Variadic
    /\ pret.val.Name = <<102, 111, 111>>
    /\ \E i \in DOMAIN regLog :
           /\ regLog[i][1] = <<100>>
           /\ regLog[i][2].Name = <<102, 111, 111>>
           /\ regLog[i][2].NParams = 2
           /\ ~regLog[i][2].Variadic

\* C7: Get is deterministic: whatever order the fallback loop visits the
\* arities in, it returns the same procedure, and no two entries under one
\* (db, name) have the same effective arity.
C7_GetDeterministic ==
    /\ \A dbName \in DbNames, name \in ProcNames, n \in Counts :
           Cardinality(GetResults(dbToProcedureMap, dbName, name, n)) = 1
    /\ \A db \in DOMAIN dbToProcedureMap : \A name \in DOMAIN dbToProcedureMap[db] :
           \A k1, k2 \in DOMAIN dbToProcedureMap[db][name] :
               k1 # k2 => Arity(dbToProcedureMap[db][name][k1])
                              # Arity(dbToProcedureMap[db][name][k2])

\* C7, witness: Get fell back with a variadic procedure and a fixed-arity one
\* that declare the same number of parameters stored under the name.
C7_Witness ==
    /\ pret.op = "Get"
    /\ LET found == Found(dbToProcedureMap, pret.db, pret.name)
       IN  /\ \A q \in found : Arity(q) # pret.count
           /\ \E q1 \in found, q2 \in found :
                  q1.Variadic /\ ~q2.Variadic /\ q1.NParams = q2.NParams

\* The procedure stored under (db, name, arity) exactly, nil if none.
EntryAt(m, db, name, k) ==
    IF db \in DOMAIN m /\ name \in DOMAIN m[db] /\ k \in DOMAIN m[db][name]
    THEN m[db][name][k]
    ELSE NilProc

\* C8: Register never fails and overwrites: after Register(db, p) Get(db,
\* name, arity) returns p, AllForDatabase(db) holds p and no longer the
\* procedure p replaces, and every other entry is unchanged.
C8_RegisterOverwrites ==
    [][regLog' # regLog =>
          LET db == pret'.db
              p == pret'.proc
              replaced == {q \in StoredFor(db) :
                              SameFold(q.Name, p.Name) /\ Arity(q) = Arity(p) /\ q # p}
          IN  /\ pret'.err = "nil"
              /\ GetResults(dbToProcedureMap', db, p.Name, Arity(p)) = {p}
              /\ \A r \in AllResults(dbToProcedureMap', db) :
                     /\ \E i \in DOMAIN r : r[i] = p
                     /\ \A i \in DOMAIN r : r[i] \notin replaced
              /\ \A d \in DbNames, name \in {ToLower(x) : x \in ProcNames},
                    k \in ParamCounts \cup {MaxInt} :
                     ~(SameFold(d, db) /\ name = ToLower(p.Name) /\ k = Arity(p)) =>
                         EntryAt(dbToProcedureMap', d, name, k)
                             = EntryAt(dbToProcedureMap, d, name, k)]_vars

\* C9: AllForDatabase(db) returns exactly the procedures stored for the
\* database, each once, sorted ascending by name and then by parameter count.
C9_AllForDatabaseSorted ==
    pret.op = "AllForDatabase" =>
        /\ {pret.val[i] : i \in DOMAIN pret.val} = StoredFor(pret.db)
        /\ Len(pret.val) = Cardinality(StoredFor(pret.db))
        /\ \A i, j \in DOMAIN pret.val :
               i < j =>
                   \/ StrLess(pret.val[i].Name, pret.val[j].Name)
                   \/ /\ pret.val[i].Name = pret.val[j].Name
                      /\ pret.val[i].NParams <= pret.val[j].NParams

-----------------------------------------------------------------------------
(* ViewRegistry: C10.                                                      *)

\* The entries of the registry for a database and a view name.
EntriesFor(vs, dbName, viewName) ==
    {e \in vs : e.db = dbName /\ e.name = ToLower(viewName)}

\* C10: the registry never holds two entries for one (database, lowercase
\* view name); Register fails with already-exists exactly when the key is
\* present and otherwise stores the view; Delete and View fail with not-found
\* exactly when the key is absent; after a successful Delete the key is
\* absent, so that View then fails with not-found.
C10_ViewRegistryKeys ==
    /\ [](\A e1 \in views, e2 \in views :
             (e1.db = e2.db /\ e1.name = e2.name) => e1 = e2)
    /\ [][LET before == EntriesFor(views, vret'.db, vret'.name)
              after == EntriesFor(views', vret'.db, vret'.name)
          IN  /\ vret'.op = "Register" =>
                     /\ vret'.err = (IF before # {} THEN "ErrExistingView" ELSE "nil")
                     /\ before # {} => views' = views
                     /\ before = {} => \E e \in after : e.view = vret'.view
              /\ vret'.op = "Delete" =>
                     /\ vret'.err = (IF before = {} THEN "ErrNonExistingView" ELSE "nil")
                     /\ after = {}
              /\ vret'.op = "View" =>
                     /\ vret'.err = (IF before = {} THEN "ErrNonExistingView" ELSE "nil")
                     /\ before # {} => \E e \in before : e.view = vret'.view
                     /\ views' = views]_vars

\* C10, witness: a Register was refused because the key already holds another
\* view, registered under a name of different letter case.
C10_Witness ==
    /\ vret.op = "Register"
    /\ vret.err = "ErrExistingView"
    /\ \E e \in EntriesFor(views, vret.db, vret.name) :
           e.view.Name # vret.view.Name /\ e.view.Def # vret.view.Def

-----------------------------------------------------------------------------
(* View listings: C11.                                                     *)

\* Whether the j-th logged call deletes what the i-th logged call registered.
Undoes(j, i) ==
    /\ viewLog[j].op = "Delete"
    /\ viewLog[j].db = viewLog[i].db
    /\ ToLower(viewLog[j].name) = ToLower(viewLog[i].name)

\* The positions of the log whose Register has not been deleted since.
LiveAt ==
    {i \in DOMAIN viewLog :
        /\ viewLog[i].op = "Register"
        /\ \A j \in DOMAIN viewLog : j > i => ~Undoes(j, i)}

\* How often a list holds a view.
TimesIn(list, v) == Cardinality({i \in DOMAIN list : list[i] = v})

\* Whether a list holds exactly the views registered at the positions P.
ListsExactly(list, P) ==
    /\ Len(list) = Cardinality(P)
    /\ \A v \in Views : TimesIn(list, v) = Cardinality({i \in P : viewLog[i].view = v})

\* C11: AllViews() lists exactly the views registered and not since deleted,
\* over all databases (none for a new registry); ViewsInDatabase(db) lists
\* exactly those of them registered under db; and a Register call leaves the
\* entries of every other database as they were.
C11_ViewListings ==
    /\ [](/\ vret.op = "AllViews" => ListsExactly(vret.val, LiveAt)
          /\ vret.op = "ViewsInDatabase" =>
                ListsExactly(vret.val, {i \in LiveAt : viewLog[i].db = vret.db}))
    /\ [][vret'.op = "Register" =>
            \A d \in DbNames \ {vret'.db} :
                {e \in views' : e.db = d} = {e \in views : e.db = d}]_vars

\* A listing of one database that holds a view, after a view was deleted and
\* while a view registered under another database is still there.
C11_Witness ==
    /\ vret.op = "ViewsInDatabase"
    /\ Len(vret.val) >= 1
    /\ \E j \in DOMAIN viewLog : viewLog[j].op = "Delete"
    /\ \E i \in LiveAt : viewLog[i].db # vret.db

-----------------------------------------------------------------------------
(* The update iterator: C12, C13, C20.                                     *)

\* Whether the halves of a paired row are equal under the schema: every
\* column compares equal.
HalvesEqual(row) ==
    \A i \in DOMAIN Schema : Compare(OldHalf(row)[i], NewHalf(row)[i]) = "true"

\* C12: for a paired row the child yields to Next, if the old half equals the
\* new half under the schema then Update is not invoked and the paired row is
\* returned; if they differ then Update is invoked exactly once, with
\* (old, new), and the paired row is returned when it succeeds.  Each Next
\* adds its Update calls to the count, and over the run the number of Update
\* calls equals the number of yielded rows whose halves differ.
C12_UpdateOnlyChangedRows ==
    /\ [](uret.op = "Next" /\ uret.in.err = "nil" =>
            /\ HalvesEqual(uret.in.row) =>
                  /\ uret.calls = <<>>
                  /\ uret.val = uret.in.row
                  /\ uret.err = "nil"
            /\ HalvesDiffer(uret.in.row) =>
                  /\ uret.calls = <<<<OldHalf(uret.in.row), NewHalf(uret.in.row)>>>>
                  /\ uret.err = "nil" => uret.val = uret.in.row)
    /\ [](nUpdate = nDiffer)
    /\ [][nNext' # nNext => nUpdate' = nUpdate + Len(uret'.calls)]_vars

\* A row whose halves are equal under the schema although not identical is
\* returned without a write, after an earlier row was written.
C12_Witness ==
    /\ uret.op = "Next"
    /\ uret.in.err = "nil"
    /\ HalvesEqual(uret.in.row)
    /\ OldHalf(uret.in.row) # NewHalf(uret.in.row)
    /\ uret.val = uret.in.row
    /\ nUpdate >= 1
    /\ nNext > nUpdate

\* C13: the first Close invokes the updater's Close and then the child
\* iterator's Close, and returns the updater's error if it has one, otherwise
\* the child's; every later Close invokes neither and returns no error.
C13_CloseOnceInOrder ==
    [][uret'.op = "Close" /\ updVars' # updVars =>
        IF ~updClosed
        THEN /\ closeLog' = closeLog \o <<"updater.Close", "child.Close">>
             /\ uret'.err = IF uret'.updaterErr # "nil" THEN uret'.updaterErr
                            ELSE uret'.childErr
        ELSE /\ closeLog' = closeLog
             /\ uret'.err = "nil"]_vars

\* The nodes on the way from the root of a plan to node i, i included.
RECURSIVE PathTo(_, _)
PathTo(pl, i) == IF i = 0 THEN {} ELSE {i} \cup PathTo(pl, pl.parent[i])

\* The largest of a set of numbers.
Max(S) == CHOOSE m \in S : \A x \in S : x <= m

\* Whether a depth-first, left-to-right walk of the plan meets node a before
\* node b: a is above b, or neither is above the other and, below their last
\* common ancestor, the branch to a is to the left of the branch to b.
Before(pl, a, b) ==
    /\ a # b
    /\ \/ a \in PathTo(pl, b)
       \/ /\ b \notin PathTo(pl, a)
          /\ LET fork == Max(PathTo(pl, a) \cap PathTo(pl, b))
                 toA == CHOOSE c \in PathTo(pl, a) : pl.parent[c] = fork
                 toB == CHOOSE c \in PathTo(pl, b) : pl.parent[c] = fork
             IN  toA < toB

\* Whether a node exposes the updatable-table capability: it is an updatable
\* table, or the table it holds is one or wraps one.
Capable(n) ==
    \/ n.kind = "UpdatableTable"
    \/ n.kind # "Node" /\ \E l \in DOMAIN n.table : n.table[l] > 0

\* The updatable table a capable node exposes: itself, or the outermost
\* updatable layer of its table.
Capability(n) ==
    IF n.kind = "UpdatableTable" THEN n.id
    ELSE n.table[CHOOSE l \in DOMAIN n.table :
                    n.table[l] > 0 /\ \A k \in 1..(l - 1) : n.table[k] = 0]

\* C20: RowIter resolves the plan below the Update node to the updatable
\* table of the first capable node a depth-first, left-to-right walk meets,
\* makes its updater and opens the child; with no capable node it fails with
\* ErrUpdateNotSupported, makes no updater and does not open the child.
C20_FirstUpdatableWins ==
    uret.op = "RowIter" =>
        LET pl == uret.plan
            capable == {i \in DOMAIN pl.node : Capable(pl.node[i])}
        IN  IF capable = {}
            THEN /\ uret.err = "ErrUpdateNotSupported"
                 /\ ~updaterMade
                 /\ ~childOpened
                 /\ updIter = "none"
            ELSE /\ \E f \in capable :
                      /\ \A g \in capable \ {f} : Before(pl, f, g)
                      /\ uret.found = Capability(pl.node[f])
                 /\ updaterMade
                 /\ childOpened
                 /\ uret.err # "ErrUpdateNotSupported"

\* A plan in which a node of a table kind without capability is met first
\* and fails, and of the two capable nodes met after it the earlier one wins.
C20_Witness ==
    /\ uret.op = "RowIter"
    /\ uret.err = "nil"
    /\ LET pl == uret.plan
       IN  \E f, g, h \in DOMAIN pl.node :
              /\ Capable(pl.node[f]) /\ Capable(pl.node[g])
              /\ ~Capable(pl.node[h]) /\ pl.node[h].kind # "Node"
              /\ Before(pl, h, f)
              /\ Before(pl, f, g)
              /\ uret.found = Capability(pl.node[f])
              /\ Capability(pl.node[f]) # Capability(pl.node[g])

-----------------------------------------------------------------------------
(* Contexts: C14, C15.                                                     *)

\* Whether the context observes cancellation: the Done() of its scope.
Done(c) == goctx[ctxs[c].scope].done

\* The sub-contexts NewSubContext derived from the context p.
SubContextsOf(p) ==
    {i \in DOMAIN ctxs : ctxs[i].how = "NewSubContext" /\ ctxs[i].from = p}

\* C14: a sub-context observes cancellation exactly if its own cancel
\* function was invoked or its parent observes cancellation (so a cancelled
\* parent reaches every sub-context and, through them, their descendants);
\* invoking the cancel function of a sub-context cancels it and changes
\* neither what its parent observes nor what a sibling sub-context observes.
C14_CancelDownOnly ==
    /\ [](\A p \in DOMAIN ctxs : \A i \in SubContextsOf(p) :
            Done(i) <=> (Done(p) \/ ctxs[i].scope \in cancelLog))
    /\ [][cret'.op = "cancel" /\ cancelLog' # cancelLog =>
            \A p \in DOMAIN ctxs : \A i \in SubContextsOf(p) :
                ctxs[i].scope = cret'.scope =>
                    /\ goctx'[ctxs[i].scope].done
                    /\ goctx'[ctxs[p].scope].done = goctx[ctxs[p].scope].done
                    /\ \A k \in SubContextsOf(p) \ {i} :
                          goctx'[ctxs[k].scope].done = goctx[ctxs[k].scope].done]_vars

\* The cancel function of a sub-context was invoked: it and a sub-context
\* of its own observe cancellation, its parent and a sibling do not.
C14_Witness ==
    /\ cret.op = "cancel"
    /\ \E p \in DOMAIN ctxs : \E i, k \in SubContextsOf(p) : \E d \in SubContextsOf(i) :
          /\ ctxs[i].scope = cret.scope
          /\ i # k
          /\ Done(i) /\ Done(d)
          /\ ~Done(p) /\ ~Done(k)

\* The fields a derived context shares with the context it was derived from.
SharedFields ==
    {"Session", "IndexRegistry", "ViewRegistry", "Memory", "pid", "query",
     "queryTime", "tracer", "rootSpan"}

\* The context made by NewContext a context goes back to.
RECURSIVE RootOf(_)
RootOf(c) == IF ctxs[c].from = 0 THEN c ELSE RootOf(ctxs[c].from)

\* C15: a context derived by Span, NewSubContext or WithContext has the
\* Session, registries, memory handle, process id, query text, timestamp,
\* tracer and root span of its parent, and Span and NewSubContext give it a
\* scope of its own; deriving a context changes no field of an existing
\* context, nor its scope, nor any session; and after a session mutation
\* through one context, that context's parent and all the forks going back to
\* the same NewContext observe the mutated session.
C15_ForksShare ==
    /\ [](\A i \in DOMAIN ctxs : ctxs[i].from # 0 =>
            /\ \A f \in SharedFields : ctxs[i][f] = ctxs[ctxs[i].from][f]
            /\ ctxs[i].how \in {"Span", "NewSubContext"} =>
                  ctxs[i].scope # ctxs[ctxs[i].from].scope)
    /\ [][Len(ctxs') > Len(ctxs) =>
            /\ \A c \in DOMAIN ctxs :
                  /\ ctxs'[c] = ctxs[c]
                  /\ goctx'[ctxs[c].scope] = goctx[ctxs[c].scope]
            /\ \A sid \in DOMAIN sessData : sessData'[sid] = sessData[sid]]_vars
    /\ [][cret'.op \in SessionMutations /\ sessData' # sessData =>
            \A d \in DOMAIN ctxs :
                RootOf(d) = RootOf(cret'.ctx) => sessData'[ctxs[d].Session] = cret'.op]_vars

\* A session mutation through a context made by WithContext, whose family
\* also holds a span child and a sub-context.
C15_Witness ==
    /\ cret.op \in SessionMutations
    /\ ctxs[cret.ctx].how = "WithContext"
    /\ \E i, j \in DOMAIN ctxs :
          /\ ctxs[i].how = "Span"
          /\ ctxs[j].how = "NewSubContext"
          /\ RootOf(i) = RootOf(cret.ctx)
          /\ RootOf(j) = RootOf(cret.ctx)
          /\ sessData[ctxs[i].Session] = cret.op
          /\ sessData[ctxs[RootOf(i)].Session] = cret.op

-----------------------------------------------------------------------------
(* The now override: C16.                                                  *)

\* The threads whose callback is executing.
InCallback == {t \in Threads : rpc[t] = "fn"}

\* C16: at most one callback executes at a time; while a callback executes
\* the now function is the one supplied with it; and when a call returns,
\* with or without an error of the callback, the now function is the one
\* its override replaced.
C16_OneOverrideAtATime ==
    /\ Cardinality(InCallback) <= 1
    /\ \A t \in InCallback : ctxNowFunc = nowArg[t]
    /\ nret.thread # 0 => nret.now = nret.before

\* A call whose callback failed has returned and restored a now function
\* other than the one it had installed, while another thread waits for the
\* mutex or runs its own callback.
C16_Witness ==
    /\ nret.thread # 0
    /\ nret.err = "ErrFn"
    /\ nret.now # nowArg[nret.thread]
    /\ \E t \in Threads \ {nret.thread} : rpc[t] = "fn" /\ nCalls[t] = 1
    /\ \E t \in Threads : nCalls[t] = MaxNowCalls

-----------------------------------------------------------------------------
(* Session locking: C17.                                                   *)

\* The threads touching a field of the session.
Accessing == {t \in SessionThreads : spc[t].at = "access"}

\* C17: a thread that reads a field of the session holds s.mu (shared or
\* exclusive) and a thread that writes one holds it exclusively, so no two
\* threads touch the same field at the same time with one of them writing.
C17_SessionStateUnderLock ==
    /\ \A t \in Accessing :
          IF spc[t].m.write THEN muWriter = t ELSE (t \in muReaders \/ muWriter = t)
    /\ \A t, u \in Accessing :
          (t # u /\ spc[t].m.field = spc[u].m.field) =>
              (~spc[t].m.write /\ ~spc[u].m.write)

-----------------------------------------------------------------------------
(* Named locks: C18.                                                       *)

\* The locks held: the names whose last AddLock or DelLock call is an AddLock.
Held ==
    {n \in LockNames :
        \E i \in DOMAIN lockLog :
            /\ lockLog[i] = [op |-> "AddLock", name |-> n]
            /\ \A j \in DOMAIN lockLog : j > i => lockLog[j].name # n}

\* C18: with a callback that fails on no held lock, IterLocks calls it once
\* for each held lock and returns no error; otherwise it calls it for held
\* locks, each at most once, up to the first one the callback fails on, calls
\* it for none after that and returns that failure; and it leaves the set of
\* held locks as it was.
C18_IterLocksVisitsOrAborts ==
    /\ [](lret.op = "IterLocks" =>
            LET v == lret.visited
            IN  /\ \A i, j \in DOMAIN v : i # j => v[i] # v[j]
                /\ {v[i] : i \in DOMAIN v} \subseteq Held
                /\ IF Held \cap lret.fails = {}
                   THEN /\ {v[i] : i \in DOMAIN v} = Held
                        /\ lret.err = "nil"
                   ELSE /\ v # <<>>
                        /\ v[Len(v)] \in lret.fails
                        /\ \A i \in 1..(Len(v) - 1) : v[i] \notin lret.fails
                        /\ lret.err = Callback(lret.fails, v[Len(v)]))
    /\ [](locks = Held)
    /\ [][lret'.op = "IterLocks" /\ lockLog' = lockLog => locks' = locks]_vars

\* Three locks are held, the callback passed on the first lock visited and
\* failed on the second, and the third was not visited.
C18_Witness ==
    /\ lret.op = "IterLocks"
    /\ Cardinality(locks) = 3
    /\ Len(lret.visited) = 2
    /\ lret.err = lret.visited[2]

-----------------------------------------------------------------------------
(* The tracing decorator: C19.                                             *)

\* The positions of the log at which the method by finished the span.
FinishedBy(log, by) ==
    {i \in DOMAIN log : log[i].ev \in {"finish", "finishWithError"} /\ log[i].by = by}

\* C19: a Close on a decorator not yet finished finishes the span once and
\* then calls the inner iterator's Close; a Close on a finished decorator
\* (after an end of sequence or an error in Next, or after a Close) calls the
\* inner iterator's Close and does not finish the span; so over a run Close
\* finishes the span at most once.
C19_CloseFinishesOnce ==
    /\ [](Cardinality(FinishedBy(spLog, "Close")) <= 1)
    /\ [][nSpanClose' # nSpanClose =>
            /\ Len(spLog') >= 1
            /\ spLog'[Len(spLog')].ev = "iter.Close"
            /\ spDone'
            /\ IF spDone
               THEN /\ Len(spLog') = Len(spLog) + 1
                    /\ SubSeq(spLog', 1, Len(spLog)) = spLog
               ELSE /\ Len(spLog') = Len(spLog) + 2
                    /\ SubSeq(spLog', 1, Len(spLog)) = spLog
                    /\ spLog'[Len(spLog) + 1].ev = "finish"]_vars

\* After rows were read and no end of sequence or error was met, Close was
\* called twice: the first call finished the span, the second did not.
C19_Witness ==
    /\ spret.op = "Close"
    /\ nSpanClose = 2
    /\ spCount >= 1
    /\ Cardinality(FinishedBy(spLog, "Close")) = 1
    /\ FinishedBy(spLog, "Next") = {}
    /\ Len(spLog) = 3

-----------------------------------------------------------------------------
(* The tracing decorator: C21, C22, C25.                                   *)

\* C21: Next returns what the inner iterator returned.  When that is a row,
\* no event is emitted and the row count grows by one; when it is the end of
\* the sequence, one "finish" event is emitted whose row count is the number
\* of Next calls that returned a row so far; when it is another error, one
\* "finish-with-error" event is emitted carrying the error's text.
C21_NextPassesThrough ==
    [][nSpanNext' # nSpanNext =>
        LET in == spret'.in
        IN  /\ spret'.row = in.row
            /\ spret'.err = in.err
            /\ in.err = "nil" =>
                  /\ spLog' = spLog
                  /\ spCount' = spCount + 1
            /\ in.err = "io.EOF" =>
                  /\ Len(spLog') = Len(spLog) + 1
                  /\ SubSeq(spLog', 1, Len(spLog)) = spLog
                  /\ spLog'[Len(spLog')].ev = "finish"
                  /\ spLog'[Len(spLog')].rows = Len(spSamples)
            /\ in.err \notin {"nil", "io.EOF"} =>
                  /\ Len(spLog') = Len(spLog) + 1
                  /\ SubSeq(spLog', 1, Len(spLog)) = spLog
                  /\ spLog'[Len(spLog')].ev = "finishWithError"
                  /\ spLog'[Len(spLog')].msg = in.err]_vars

\* After two rows, Next met the end of the sequence and emitted a finish
\* event counting two rows.
C21_Witness ==
    /\ spret.op = "Next"
    /\ spret.in.err = "io.EOF"
    /\ Len(spSamples) = 2
    /\ Len(spLog) = 1
    /\ spLog[1].ev = "finish"
    /\ spLog[1].rows = 2

\* The sum of a sequence of numbers.
RECURSIVE SumOf(_)
SumOf(q) == IF q = <<>> THEN 0 ELSE Head(q) + SumOf(Tail(q))

\* The elements of a sequence.
Range(q) == {q[i] : i \in DOMAIN q}

\* The smallest of a set of numbers.
Min(S) == CHOOSE m \in S : \A x \in S : m <= x

\* Whether a finish event states the exact statistics of the elapsed times q.
ExactFor(e, q) ==
    /\ e.rows = Len(q)
    /\ e.total = SumOf(q)
    /\ e.max = IF q = <<>> THEN 0 ELSE Max(Range(q))
    /\ e.min = IF q = <<>> THEN 0 ELSE Min(Range(q))
    /\ e.avg = IF q = <<>> THEN 0 ELSE SumOf(q) \div Len(q)
    /\ q # <<>> => e.min <= e.avg /\ e.avg <= e.max

\* C22: every finish event states the sum, the maximum and the minimum of the
\* elapsed times of the Next calls that returned a row, and their integer
\* average (zero without rows), so that min <= average <= max with rows.
C22_StatisticsExact ==
    [][\A i \in (Len(spLog) + 1)..Len(spLog') :
          spLog'[i].ev = "finish" => ExactFor(spLog'[i], spSamples)]_vars

\* C25: over every sequence of Next and Close calls the span is finished at
\* most once, and each Close ends with the inner iterator's Close.
C25_SpanFinishedAtMostOnce ==
    /\ [](Cardinality(FinishedBy(spLog, "Next") \cup FinishedBy(spLog, "Close")) <= 1)
    /\ [][nSpanClose' # nSpanClose =>
            /\ Len(spLog') > Len(spLog)
            /\ spLog'[Len(spLog')] = InnerCloseCall]_vars

-----------------------------------------------------------------------------
(* The update iterator: C24, C28.                                          *)

\* C24: once Close has been called, the updater and the child iterator have
\* each been closed exactly once, whatever the updater's Close returned.
C24_CloseClosesBoth ==
    updClosed => closeLog = <<"updater.Close", "child.Close">>

\* Whether the equality check of a paired row fails: the first column that
\* does not compare equal cannot be compared.
CompareFails(row) ==
    \E i \in DOMAIN Schema :
        /\ Compare(OldHalf(row)[i], NewHalf(row)[i]) = "error"
        /\ \A j \in 1..(i - 1) : Compare(OldHalf(row)[j], NewHalf(row)[j]) = "true"

\* C28: when the child returns an error or the end of the sequence, Next
\* returns it, yields no row, compares nothing and does not invoke Update;
\* when the equality check fails, Next returns an error, yields no row and
\* does not invoke Update; when Update fails, Next returns its error and
\* yields no row.  Without an Update call the count of Update calls stays.
C28_NextErrorPaths ==
    /\ [](uret.op = "Next" =>
            /\ uret.in.err # "nil" =>
                  /\ uret.err = uret.in.err
                  /\ uret.val = <<>>
                  /\ ~uret.compared
                  /\ uret.calls = <<>>
            /\ uret.in.err = "nil" /\ CompareFails(uret.in.row) =>
                  /\ uret.err = "ErrCompare"
                  /\ uret.val = <<>>
                  /\ uret.calls = <<>>
            /\ uret.updErr # "nil" =>
                  /\ uret.err = uret.updErr
                  /\ uret.val = <<>>)
    /\ [][nNext' # nNext /\ uret'.calls = <<>> => nUpdate' = nUpdate]_vars

\* After a row was written and yielded, Update failed for the next row and
\* Next yielded no row.
C28_Witness ==
    /\ uret.op = "Next"
    /\ uret.updErr = "ErrUpdate"
    /\ uret.err = "ErrUpdate"
    /\ uret.val = <<>>
    /\ nUpdate = 2
    /\ nNext = 2

-----------------------------------------------------------------------------
(* applyUpdateExpressions: C23.                                            *)

\* Whether evaluating e against row gives a row and no error.
GivesRow(e, row) == Eval(e, row).err = "nil" /\ Eval(e, row).isRow

\* C23: the expressions are evaluated in the given order, the first against
\* the input row and each later one against the row the one before it gave;
\* the evaluation stops after the first expression that fails or gives
\* something that is not a row, and the result is then that error or the
\* type-mismatch error, with no row; otherwise every expression is evaluated
\* and the result is the row the last one gave, the input row when there is
\* no expression.
C23_ApplyInOrder ==
    aret.op = "apply" =>
        LET exprs == aret.exprs
            evals == aret.out.evals
            n == Len(evals)
        IN  /\ n <= Len(exprs)
            /\ \A k \in 1..n : evals[k].expr = exprs[k]
            /\ n >= 1 => evals[1].row = aret.row
            /\ \A k \in 1..(n - 1) :
                  /\ GivesRow(exprs[k], evals[k].row)
                  /\ evals[k + 1].row = Eval(exprs[k], evals[k].row).val
            /\ IF n = 0
               THEN /\ exprs = <<>>
                    /\ aret.out.row = aret.row
                    /\ aret.out.err = "nil"
               ELSE IF GivesRow(exprs[n], evals[n].row)
               THEN /\ n = Len(exprs)
                    /\ aret.out.row = Eval(exprs[n], evals[n].row).val
                    /\ aret.out.err = "nil"
               ELSE /\ aret.out.row = <<>>
                    /\ aret.out.err =
                          IF Eval(exprs[n], evals[n].row).err # "nil"
                          THEN Eval(exprs[n], evals[n].row).err
                          ELSE "ErrUpdateUnexpectedSetResult"

\* Three expressions were given; the first changed the row, the second,
\* evaluated against the changed row, gave something that is not a row, and
\* the third was not evaluated.
C23_Witness ==
    /\ aret.op = "apply"
    /\ Len(aret.exprs) = 3
    /\ Len(aret.out.evals) = 2
    /\ aret.out.evals[2].row # aret.row
    /\ aret.out.err = "ErrUpdateUnexpectedSetResult"

-----------------------------------------------------------------------------
(* Session methods called from an IterLocks callback: C26.                 *)

\* C26: a callback of IterLocks that calls AddLock, DelLock, Set or Warn on
\* the session being iterated returns, and the IterLocks call returns.
C26_CallbackMayModify ==
    /\ (reiter = "cb" /\ Exclusive(recb)) ~> (reiter # "cb")
    /\ (reiter # "idle") ~> (reiter = "idle")

-----------------------------------------------------------------------------
(* RunWithNowFunc, nested and concurrent: C27.                             *)

\* C27: every RunWithNowFunc call returns: a thread that is in a call is
\* eventually in none, also when callbacks call RunWithNowFunc and when
\* several threads call it.
C27_RunWithNowFuncReturns ==
    \A t \in Threads : (nestStack[t] # <<>>) ~> (nestStack[t] = <<>>)

=============================================================================
